---------------------------- MODULE Spec2Model ----------------------------
(***************************************************************************)
(* State-machine model of the K-band front-end simulator K_FE / FEServer   *)
(* of K2_simulator.py: two feeds with ambient load, preamp bias and two    *)
(* polarization channels, one noise diode with its attenuator, and the     *)
(* legacy option-code dispatcher set_WBDC.                                 *)
(*                                                                         *)
(* Units.  Temperatures are integers in millikelvin, attenuations in       *)
(* hundredths of a dB, random.random() is k/RandomSteps.  A power-meter    *)
(* reading is the exact quotient num/den kept as a pair: num in mK, den    *)
(* the divisor, so that 1e-10 is 1/10^7 (1 mK over 10^7).                  *)
(*                                                                         *)
(* Python values.  A result is a record with a field "type": NoneType,     *)
(* int, float, str, list, dict, or "raise" for a raised exception.  A str  *)
(* argument is a sequence of one-character strings; the text that option   *)
(* 12 returns is a sequence of words and "\n" tokens (words are separated  *)
(* by one blank).                                                          *)
(***************************************************************************)
EXTENDS Integers, Sequences, FiniteSets, TLC

VARIABLES
  feed,   \* K_FE.feed: feed number -> [load, preamp_state, chan]
  nd,     \* K_FE.nd: the NoiseDiode [state, max, temp, atten]
  call,   \* the request last processed: [op, args]
  ret,    \* what that request returned or raised
  log,    \* the logger.error record that request emitted, or NoLog
  hist,   \* history of the requests: [nd, codes, load], see Record
  pending,\* the requests of the remote callers that wait to be served
  client, \* the K_4ch client object, or NoClient where none takes part
  legacy  \* the legacy FE_server object, or NoLegacy where none takes part

vars == <<feed, nd, call, ret, log, hist, pending, client, legacy>>

-----------------------------------------------------------------------------
(* Bounds of the model *)

\* random.random() takes the values k/RandomSteps, k in 0..RandomSteps-1
RandomSteps == 2

-----------------------------------------------------------------------------
(* Module constants of K2_simulator.py, in mK *)

T_CBG == 2730
T_rs == 2000
T_atm == 9000
T_amb == 273150 + 20000

T_rx == [f \in {1, 2} |->
          IF f = 1 THEN [E |-> 19650, H |-> 19750]
                   ELSE [E |-> 22270, H |-> 20550]]

T_sky(f, pol) == T_CBG + T_rx[f][pol] + T_rs + T_atm

\* a bug: the load is taken to be as cold as the cosmic background
T_load_cold(f, pol) == T_rx[f][pol] + T_CBG

T_load(f, pol) == T_rx[f][pol] + T_amb

tsys_factor == [f \in {1, 2} |->
                 IF f = 1 THEN [E |-> 999883083, H |-> 840000000]
                          ELSE [E |-> 690000000, H |-> 705797017]]

-----------------------------------------------------------------------------
(* Python values *)

PyNone == [type |-> "NoneType"]
PyInt(i) == [type |-> "int", v |-> i]
PyFloat(num, den) == [type |-> "float", num |-> num, den |-> den]
PyStr(toks) == [type |-> "str", v |-> toks]
PyList(seq) == [type |-> "list", v |-> seq]
PyDict(fn) == [type |-> "dict", v |-> fn]
Raise(exc) == [type |-> "raise", exc |-> exc]

NoLog == [level |-> "none"]

\* str.strip() and str.lower() on a sequence of characters
Whitespace == {" ", "\t", "\n"}

RECURSIVE lstrip(_)
lstrip(s) == IF s # <<>> /\ Head(s) \in Whitespace THEN lstrip(Tail(s)) ELSE s

RECURSIVE rstrip(_)
rstrip(s) == IF s # <<>> /\ s[Len(s)] \in Whitespace
               THEN rstrip(SubSeq(s, 1, Len(s) - 1)) ELSE s

strip(s) == rstrip(lstrip(s))

lower_char(c) == CASE c = "S" -> "s" [] c = "K" -> "k" [] c = "Y" -> "y"
                   [] c = "L" -> "l" [] c = "O" -> "o" [] c = "A" -> "a"
                   [] c = "D" -> "d" [] OTHER -> c

lower(s) == [i \in 1..Len(s) |-> lower_char(s[i])]

-----------------------------------------------------------------------------
(* The objects of K_FE and their constructors *)

\* an int that set_feed stores in place of a feed's load
IntObj(i) == [cls |-> "int", value |-> i]

\* K_FE.Feed.AmbientLoad.__init__: state 0 is out; temp 320 K
AmbientLoad == [cls |-> "AmbientLoad", state |-> 0, temp |-> 320000]

\* attribute and method lookup on what a feed's load attribute holds
HasAttr(obj, name) ==
  /\ obj.cls = "AmbientLoad"
  /\ name \in {"state", "temp", "logger", "set_state", "get_state"}

\* K_FE.Feed.AmbientLoad.set_state
AmbientLoad_set_state(load, state) == [load EXCEPT !.state = state]

\* K_FE.Feed.AmbientLoad.get_state
AmbientLoad_get_state(load) == load.state

\* K_FE.Feed.Channel.set_PM_mode
set_PM_mode(chan, mode) == [chan EXCEPT !.PM_mode = mode]

\* a bug: the channel is constructed in mode 'dBm'
Channel_dBm(pol) == set_PM_mode([pol |-> pol, PM_mode |-> "unset"], "dBm")

\* K_FE.Feed.Channel.__init__
Channel(pol) == set_PM_mode([pol |-> pol, PM_mode |-> "unset"], "W")

\* K_FE.Feed.set_preamp_bias: state 0 is bias off, state 1 is bias on
Feed_set_preamp_bias(fobj, state) == [fobj EXCEPT !.preamp_state = state]

\* K_FE.Feed.__init__
Feed(number) ==
  Feed_set_preamp_bias(
    [number |-> number,
     load |-> AmbientLoad,
     chan |-> [E |-> Channel("E"), H |-> Channel("H")],
     preamp_state |-> -1], 1)

\* Radio_Astronomy.gain (dB -> power ratio, 10^(dB/10)), in thousandths,
\* tabulated on the attenuations the model uses (hundredths of a dB)
gain(dB) == CASE dB = -986 -> 103 [] dB = -300 -> 501 [] dB = 0 -> 1000

\* the attenuations Attenuator.set_atten is called with
AttenArgs == {-986, -300}

\* K_FE.NoiseDiode.Attenuator.__init__: the parent argument is not stored
Attenuator(parent, atten) == [atten |-> atten]

\* a bug: the stored temperature is returned without recomputing it
get_temperature_stale(n) == [nd |-> n, ret |-> n.temp]

\* K_FE.NoiseDiode.get_temperature: stores and returns max*gain(atten)
get_temperature(n) ==
  LET t == (n.max * gain(n.atten.atten)) \div 1000
  IN  [nd |-> [n EXCEPT !.temp = t], ret |-> t]

\* K_FE.NoiseDiode.__init__
NoiseDiode ==
  get_temperature([max |-> 384600, state |-> 0,
                   atten |-> Attenuator("self", -986), temp |-> 0]).nd

\* a bug: switching the diode puts the attenuator back to 0 dB
NoiseDiode_set_state_resets(n, state) ==
  [n EXCEPT !.state = state, !.atten = Attenuator("self", 0)]

\* K_FE.NoiseDiode.set_state
NoiseDiode_set_state(n, state) == [n EXCEPT !.state = state]

\* K_FE.__init__
K_FE_feed == [f \in {1, 2} |-> Feed(f)]

\* sorted(d) for a dict keyed by integers
RECURSIVE sorted(_)
sorted(keys) ==
  IF keys = {} THEN <<>>
  ELSE LET m == CHOOSE k \in keys : \A j \in keys : k <= j
       IN  <<m>> \o sorted(keys \ {m})

\* sorted(chan) for a dict keyed by polarization names ("E" < "H")
sorted_pols(chan) == SelectSeq(<<"E", "H">>, LAMBDA p : p \in DOMAIN chan)

-----------------------------------------------------------------------------
(* Outcome of a request: the state it leaves, what it returns and logs *)

Outcome(fd, n, r, l) == [feed |-> fd, nd |-> n, ret |-> r, log |-> l]

\* the value 1e-10 that read_PM returns with the preamp bias off
PM_floor == PyFloat(1, 10000000)

\* x*random.random() in mK, for x in mK and random.random() = r/RandomSteps
jitter(x, r) == (x * r) \div RandomSteps

\* a bug: the noise diode is added before the preamp bias is looked at
read_PM_diode_first(fobj, n, pol, r) ==
  IF n.state # 0
    THEN [nd |-> get_temperature(n).nd,
          ret |-> PyFloat(get_temperature(n).ret, tsys_factor[fobj.number][pol])]
  ELSE IF fobj.preamp_state = 0 THEN [nd |-> n, ret |-> PM_floor]
  ELSE IF ~HasAttr(fobj.load, "state")
    THEN [nd |-> n, ret |-> Raise("AttributeError")]
  ELSE [nd |-> n,
        ret |-> PyFloat(IF fobj.load.state # 0
                          THEN T_load(fobj.number, pol) + jitter(100, r)
                          ELSE T_sky(fobj.number, pol) + jitter(500, r),
                        tsys_factor[fobj.number][pol])]

\* K_FE.Feed.Channel.read_PM for the channel pol of feed object fobj, with
\* noise diode n and random draw r: [nd, ret]
read_PM(fobj, n, pol, r) ==
  IF fobj.preamp_state = 0 THEN [nd |-> n, ret |-> PM_floor]
  ELSE IF ~HasAttr(fobj.load, "state")
    THEN [nd |-> n, ret |-> Raise("AttributeError")]
  ELSE LET f == fobj.number
           T_op == IF fobj.load.state # 0
                     THEN T_load(f, pol) + jitter(100, r)
                     ELSE T_sky(f, pol) + jitter(500, r)
       IN  IF n.state # 0
             THEN LET g == get_temperature(n)
                  IN  [nd |-> g.nd,
                       ret |-> PyFloat(T_op + g.ret, tsys_factor[f][pol])]
             ELSE [nd |-> n, ret |-> PyFloat(T_op, tsys_factor[f][pol])]

\* the (feed, pol) pairs in the order read_PMs visits them
PM_order(fd) ==
  LET fs == sorted(DOMAIN fd)
      RECURSIVE walk(_)
      walk(i) == IF i > Len(fs) THEN <<>>
                 ELSE [k \in 1..Len(sorted_pols(fd[fs[i]].chan)) |->
                         <<fs[i], sorted_pols(fd[fs[i]].chan)[k]>>]
                      \o walk(i + 1)
  IN  walk(1)

\* the loop of K_FE.read_PMs from the number-th channel on
RECURSIVE read_PMs_loop(_, _, _, _, _)
read_PMs_loop(order, number, n, readings, rs) ==
  IF number > Len(order) THEN Outcome(feed, n, PyList(readings), NoLog)
  ELSE LET ch == order[number]
           o == read_PM(feed[ch[1]], n, ch[2], rs[number])
       IN  IF o.ret.type = "raise" THEN Outcome(feed, o.nd, o.ret, NoLog)
           ELSE read_PMs_loop(order, number + 1, o.nd,
                              Append(readings, <<number, o.ret>>), rs)

\* K_FE.read_PMs, rs[i] the random draw of the i-th channel read
read_PMs(rs) == read_PMs_loop(PM_order(feed), 1, nd, <<>>, rs)

\* K_FE.read_temp with random draws r1 (12K stage) and r2 (70K stage)
read_temp(r1, r2) ==
  IF ~HasAttr(feed[1].load, "temp") \/ ~HasAttr(feed[2].load, "temp")
    THEN Outcome(feed, nd, Raise("AttributeError"), NoLog)
  ELSE Outcome(feed, nd,
               PyDict([k \in {"load1", "12K", "load2", "70K"} |->
                         CASE k = "load1" -> feed[1].load.temp
                           [] k = "12K" -> 15000 + jitter(10, r1)
                           [] k = "load2" -> feed[2].load.temp
                           [] k = "70K" -> 80000 + jitter(500, r2)]),
               NoLog)

-----------------------------------------------------------------------------
(* K_FE methods for Pyro clients *)

\* the strings 'sky' and 'load' that set_feed compares with
SKY == <<"s", "k", "y">>
LOAD == <<"l", "o", "a", "d">>

\* K_FE.get_feed
get_feed(f) ==
  IF f \notin DOMAIN feed THEN Outcome(feed, nd, Raise("KeyError"), NoLog)
  ELSE IF ~HasAttr(feed[f].load, "get_state")
    THEN Outcome(feed, nd, Raise("AttributeError"), NoLog)
  ELSE Outcome(feed, nd, PyInt(AmbientLoad_get_state(feed[f].load)), NoLog)

\* a bug: 'sky' toggles between 0 and 1 instead of setting 0
set_feed_load_toggle(f, word) ==
  IntObj(IF word = SKY THEN (IF feed[f].load = IntObj(0) THEN 1 ELSE 0)
         ELSE 1)

\* the value set_feed assigns to feed[f].load for the normalised string
set_feed_load(f, word) == IntObj(IF word = SKY THEN 0 ELSE 1)

\* K_FE.set_feed: the load attribute is assigned, then self.frontend, which
\* K_FE never defines, is looked up
set_feed(f, state) ==
  LET word == lower(strip(state))
  IN  IF word \in {SKY, LOAD}
        THEN IF f \notin DOMAIN feed
               THEN Outcome(feed, nd, Raise("KeyError"), NoLog)
               ELSE Outcome([feed EXCEPT ![f].load = set_feed_load(f, word)],
                            nd, Raise("AttributeError"), NoLog)
        ELSE Outcome(feed, nd, Raise("AttributeError"), NoLog)

\* K_FE.get_ND_state
get_ND_state == Outcome(feed, nd, PyInt(nd.state), NoLog)

\* a bug: the flag is read the wrong way round
set_ND_state_inverted(state) ==
  Outcome(feed, [nd EXCEPT !.state = IF state THEN 0 ELSE 1], PyNone, NoLog)

\* K_FE.set_ND_state
set_ND_state(state) ==
  Outcome(feed, NoiseDiode_set_state(nd, IF state THEN 1 ELSE 0), PyNone, NoLog)

\* K_FE.set_preamp_bias: self.feed[feed].chan is a dict and is called
set_preamp_bias(f, state) ==
  IF f \notin DOMAIN feed THEN Outcome(feed, nd, Raise("KeyError"), NoLog)
  ELSE Outcome(feed, nd, Raise("TypeError"), NoLog)

\* K_FE.NoiseDiode.Attenuator.set_atten on nd.atten: atten is stored, then
\* self.parent, which Attenuator.__init__ never stores, is looked up
set_atten(atten) ==
  LET a == [nd.atten EXCEPT !.atten = atten]
  IN  IF "parent" \in DOMAIN a
        THEN Outcome(feed,
                     [nd EXCEPT !.atten = a,
                                !.temp = (nd.max * gain(atten)) \div 1000],
                     PyNone, NoLog)
        ELSE Outcome(feed, [nd EXCEPT !.atten = a], Raise("AttributeError"),
                     NoLog)

-----------------------------------------------------------------------------
(* FEServer.set_WBDC *)

\* a bug: the names of the load states in the wrong order
statenames_swapped == <<"load", "sky">>

\* option 12: the names of load states 0 and 1
statenames == <<"sky", "load">>

\* option 12: one line per feed in ascending order
RECURSIVE check_feeds(_, _, _)
check_feeds(feeds, i, response) ==
  IF i > Len(feeds) THEN Outcome(feed, nd, PyStr(response), NoLog)
  ELSE IF ~HasAttr(feed[feeds[i]].load, "state")
    THEN Outcome(feed, nd, Raise("AttributeError"), NoLog)
  ELSE check_feeds(feeds, i + 1,
         response \o <<"feed", ToString(feeds[i]), "is", "on", "the",
                       statenames[feed[feeds[i]].load.state + 1],
                       "\n">>)

\* a bug: the load of the other feed is moved as well
WBDC_set_load_both(f, state) ==
  IF ~HasAttr(feed[f].load, "set_state")
    THEN Outcome(feed, nd, Raise("AttributeError"), NoLog)
  ELSE Outcome([g \in {1, 2} |->
                  IF HasAttr(feed[g].load, "set_state")
                    THEN [feed[g] EXCEPT !.load = AmbientLoad_set_state(@, state)]
                    ELSE feed[g]],
               nd, PyNone, NoLog)

\* options 13-16: self.feed[f].load.set_state(state=state)
WBDC_set_load(f, state) ==
  IF ~HasAttr(feed[f].load, "set_state")
    THEN Outcome(feed, nd, Raise("AttributeError"), NoLog)
  ELSE Outcome([feed EXCEPT ![f].load = AmbientLoad_set_state(@, state)],
               nd, PyNone, NoLog)

\* options 23, 24: self.nd.set_state(state)
WBDC_set_ND(state) ==
  Outcome(feed, NoiseDiode_set_state(nd, state), PyNone, NoLog)

\* a bug: the preamp bias of both feeds is switched
WBDC_set_preamp_both(f, state) ==
  Outcome([g \in {1, 2} |-> Feed_set_preamp_bias(feed[g], state)], nd, PyNone,
          NoLog)

\* options 25-28: self.feed[f].set_preamp_bias(state)
WBDC_set_preamp(f, state) ==
  Outcome([feed EXCEPT ![f] = Feed_set_preamp_bias(@, state)], nd, PyNone,
          NoLog)

\* a bug: the mode of the other polarization of the feed is set
WBDC_set_PM_mode_other_pol(f, pol, mode) ==
  Outcome([feed EXCEPT ![f].chan[IF pol = "E" THEN "H" ELSE "E"] =
                         set_PM_mode(@, mode)],
          nd, PyNone, NoLog)

\* a bug: selecting 'dBm' also switches the feed's preamp bias off
WBDC_set_PM_mode_bias(f, pol, mode) ==
  Outcome([feed EXCEPT ![f].chan[pol] = set_PM_mode(@, mode),
                       ![f].preamp_state = IF mode = "dBm" THEN 0 ELSE @],
          nd, PyNone, NoLog)

\* options 390-393 and 400-403: self.feed[f].chan[pol].set_PM_mode(mode)
WBDC_set_PM_mode(f, pol, mode) ==
  Outcome([feed EXCEPT ![f].chan[pol] = set_PM_mode(@, mode)], nd, PyNone,
          NoLog)

\* a bug: the else branch also runs the branch before it
WBDC_unrecognized_falls_through(option) ==
  [WBDC_set_PM_mode(2, "H", "dBm") EXCEPT
     !.log = [level |-> "error", option |-> option]]

\* the else branch: logger.error and nothing else
WBDC_unrecognized(option) ==
  Outcome(feed, nd, PyNone, [level |-> "error", option |-> option])

set_WBDC(option) ==
  CASE option = 12 -> check_feeds(sorted(DOMAIN feed), 1, <<>>)
    [] option = 13 -> WBDC_set_load(1, 0)
    [] option = 14 -> WBDC_set_load(1, 1)
    [] option = 15 -> WBDC_set_load(2, 0)
    [] option = 16 -> WBDC_set_load(2, 1)
    [] option = 22 -> Outcome(feed, nd, PyInt(nd.state), NoLog)
    [] option = 23 -> WBDC_set_ND(1)
    [] option = 24 -> WBDC_set_ND(0)
    [] option = 25 -> WBDC_set_preamp(1, 1)
    [] option = 26 -> WBDC_set_preamp(1, 0)
    [] option = 27 -> WBDC_set_preamp(2, 1)
    [] option = 28 -> WBDC_set_preamp(2, 0)
    [] option = 390 -> WBDC_set_PM_mode(1, "E", "W")
    [] option = 391 -> WBDC_set_PM_mode(1, "H", "W")
    [] option = 392 -> WBDC_set_PM_mode(2, "E", "W")
    [] option = 393 -> WBDC_set_PM_mode(2, "H", "W")
    [] option = 400 -> WBDC_set_PM_mode(1, "E", "dBm")
    [] option = 401 -> WBDC_set_PM_mode(1, "H", "dBm")
    [] option = 402 -> WBDC_set_PM_mode(2, "E", "dBm")
    [] option = 403 -> WBDC_set_PM_mode(2, "H", "dBm")
    [] OTHER -> WBDC_unrecognized(option)

-----------------------------------------------------------------------------
(* Arguments of the requests *)

\* the option codes of the protocol table (module docstring, spec 6.1)
ProtocolTable ==
  {12, 13, 14, 15, 16, 17, 22, 23, 24, 25, 26, 27, 28, 31}
    \cup (390..393) \cup (400..403)

\* option codes outside the table
OtherOptions == {0, 20, 39, 404, 999}

OptionArgs == ProtocolTable \cup OtherOptions

\* feed arguments of the K_FE methods: the feeds 1 and 2 and two others
FeedArgs == {0, 1, 2, 3}

\* strings passed to set_feed
StateArgs ==
  { SKY, LOAD,
    <<" ", "S", "k", "Y", "\n">>,
    <<"\t", "L", "O", "A", "D", " ">>,
    <<"s", "k", "y", "e">>,
    <<>> }

Draws == 0..(RandomSteps - 1)

-----------------------------------------------------------------------------
(* The state machine: one action per request *)

\* the history after request c.  nd: the last noise-diode command ("on",
\* "off", or "none" since construction).  codes: every request so far was
\* an option code.  load[f]: while codes holds, the last load command for
\* feed f among the option codes 13/14 (f = 1) and 15/16 (f = 2): "sky",
\* "load", or "none"; it is not tracked once codes is false.
Record(c) ==
  LET codes == hist.codes /\ c.op = "set_WBDC"
  IN  [nd |-> IF c.op = "set_WBDC" /\ c.args[1] = 23 THEN "on"
              ELSE IF c.op = "set_WBDC" /\ c.args[1] = 24 THEN "off"
              ELSE IF c.op = "set_ND_state"
                THEN (IF c.args[1] THEN "on" ELSE "off")
              ELSE hist.nd,
       codes |-> codes,
       load |-> [f \in {1, 2} |->
                  IF ~codes THEN "none"
                  ELSE IF c.args[1] = 11 + 2 * f THEN "sky"
                  ELSE IF c.args[1] = 12 + 2 * f THEN "load"
                  ELSE hist.load[f]]]

Request(op, args) == [op |-> op, args |-> args]

\* no remote caller has a request waiting
NoPending == <<>>

\* no K_4ch client takes part
NoClient == [cls |-> "none"]

\* no legacy FE_server takes part
NoLegacy == [cls |-> "none"]

\* no request is being processed
Idle == Request("idle", <<>>)

\* a request is taken when the previous one has been answered and is
\* processed to completion
Step(c, o) ==
  /\ call = Idle
  /\ feed' = o.feed
  /\ nd' = o.nd
  /\ ret' = o.ret
  /\ log' = o.log
  /\ call' = c
  /\ hist' = Record(c)
  /\ UNCHANGED <<pending, client, legacy>>

Init ==
  /\ feed = K_FE_feed
  /\ nd = NoiseDiode
  /\ call = Request("__init__", <<>>)
  /\ ret = PyNone
  /\ log = NoLog
  /\ hist = [nd |-> "none", codes |-> TRUE, load |-> [f \in {1, 2} |-> "none"]]
  /\ pending = NoPending
  /\ client = NoClient
  /\ legacy = NoLegacy

\* the response goes back to the caller and the server waits for a request
Reply ==
  /\ call # Idle
  /\ call' = Idle
  /\ ret' = PyNone
  /\ log' = NoLog
  /\ UNCHANGED <<feed, nd, hist, pending, client, legacy>>

Call_set_WBDC ==
  \E option \in OptionArgs :
    Step(Request("set_WBDC", <<option>>), set_WBDC(option))

Call_get_feed ==
  \E f \in FeedArgs : Step(Request("get_feed", <<f>>), get_feed(f))

Call_set_feed ==
  \E f \in FeedArgs, state \in StateArgs :
    Step(Request("set_feed", <<f, state>>), set_feed(f, state))

Call_get_ND_state == Step(Request("get_ND_state", <<>>), get_ND_state)

Call_set_ND_state ==
  \E state \in BOOLEAN :
    Step(Request("set_ND_state", <<state>>), set_ND_state(state))

Call_set_preamp_bias ==
  \E f \in FeedArgs, state \in {0, 1} :
    Step(Request("set_preamp_bias", <<f, state>>), set_preamp_bias(f, state))

Call_read_PMs ==
  \E rs \in [1..4 -> Draws] : Step(Request("read_PMs", <<>>), read_PMs(rs))

Call_read_temp ==
  \E r1 \in Draws, r2 \in Draws :
    Step(Request("read_temp", <<>>), read_temp(r1, r2))

Call_set_atten ==
  \E atten \in AttenArgs :
    Step(Request("set_atten", <<atten>>), set_atten(atten))

Next ==
  \/ Reply
  \/ Call_set_WBDC
  \/ Call_get_feed
  \/ Call_set_feed
  \/ Call_get_ND_state
  \/ Call_set_ND_state
  \/ Call_set_preamp_bias
  \/ Call_read_PMs
  \/ Call_read_temp
  \/ Call_set_atten

Spec == Init /\ [][Next]_vars

-----------------------------------------------------------------------------
(* Properties *)

\* the request just processed is set_WBDC(option)
Dispatched(option) == call.op = "set_WBDC" /\ call.args[1] = option

\* the request just processed is set_WBDC with a code outside the table
DispatchedUnlisted == call.op = "set_WBDC" /\ call.args[1] \notin ProtocolTable

\* C1: for every feed f in {1,2} and every string that is "sky" or "load"
\* after strip() and lower(), get_feed(f) after set_feed(f, string) returns
\* the target state, 0 for sky and 1 for load.
C1_SetFeedThenGetFeed ==
  (/\ call.op = "set_feed"
   /\ call.args[1] \in {1, 2}
   /\ lower(strip(call.args[2])) \in {SKY, LOAD})
  => get_feed(call.args[1]).ret =
       PyInt(IF lower(strip(call.args[2])) = SKY THEN 0 ELSE 1)

\* the text "feed 1 is on the x\nfeed 2 is on the y\n"
FeedReport(x, y) ==
  PyStr(<<"feed", "1", "is", "on", "the", x, "\n",
          "feed", "2", "is", "on", "the", y, "\n">>)

\* the state a feed is reported on after the load commands h
StateName(h) == IF h = "load" THEN "load" ELSE "sky"

\* C2: after any sequence of option codes, set_WBDC(12) returns exactly the
\* two lines "feed 1 is on the X\n", "feed 2 is on the Y\n", X (Y) being
\* "load" if the last of the codes 13/14 (15/16) was 14 (16) and "sky" if it
\* was 13 (15) or none was dispatched.
C2_CheckFeedsReport ==
  (Dispatched(12) /\ hist.codes)
  => ret = FeedReport(StateName(hist.load[1]), StateName(hist.load[2]))

C2_Witness ==
  /\ Dispatched(12)
  /\ hist.codes
  /\ hist.load[1] = "load"
  /\ hist.load[2] = "sky"
  /\ ret = FeedReport("load", "sky")

\* C3: after any sequence of requests the noise-diode query, get_ND_state
\* or option 22, returns an int, never None: 1 if the last noise-diode
\* command was "on" (code 23, set_ND_state(True)), 0 if it was "off" (code
\* 24, set_ND_state(False)) or there was none since construction.
C3_NDStateQuery ==
  LET expected == PyInt(IF hist.nd = "on" THEN 1 ELSE 0)
  IN  /\ get_ND_state.ret = expected
      /\ set_WBDC(22).ret = expected
      /\ (call.op = "get_ND_state" \/ Dispatched(22)) => ret = expected

C3_Witness ==
  /\ Dispatched(22)
  /\ hist.nd = "on"
  /\ ~hist.codes
  /\ ret = PyInt(1)

\* C4: an option code outside the protocol table yields an error outcome
\* that reaches the caller, raised or returned, and differs from the None
\* of a successful command without response.
C4_UnknownOptionSurfaced ==
  DispatchedUnlisted => ret.type # "NoneType"

\* C5: dispatching an option code outside the protocol table changes no
\* state: load states, preamp bias states, noise-diode state, attenuation
\* and power-meter modes are what they were.
C5_UnknownOptionNoEffect ==
  [][DispatchedUnlisted' => (feed' = feed /\ nd' = nd)]_vars

C5_Witness ==
  /\ DispatchedUnlisted
  /\ log = [level |-> "error", option |-> call.args[1]]
  /\ feed[1].load = [AmbientLoad EXCEPT !.state = 1]
  /\ feed[2].preamp_state = 0
  /\ feed[1].chan.H.PM_mode = "dBm"
  /\ nd.state = 1
  /\ nd.atten.atten = -300

\* C6: every option code of the protocol table is recognised, never
\* reaching the unrecognized-option branch; code 17 returns the list of the
\* four (index, value) readings and code 31 the dict of the four named
\* temperatures.
C6_TableCodesRecognised ==
  (call.op = "set_WBDC" /\ call.args[1] \in ProtocolTable)
  => /\ log.level # "error"
     /\ Dispatched(17) => (ret.type = "list" /\ Len(ret.v) = 4)
     /\ Dispatched(31) =>
          (ret.type = "dict" /\ DOMAIN ret.v = {"load1", "load2", "12K", "70K"})

\* C7: in every reachable state read_PMs returns exactly 4 entries with
\* the indices 1, 2, 3, 4 in this order, for (feed 1, E), (feed 1, H),
\* (feed 2, E), (feed 2, H).
C7_ReadPMsFourEntries ==
  /\ PM_order(feed) = << <<1, "E">>, <<1, "H">>, <<2, "E">>, <<2, "H">> >>
  /\ call.op = "read_PMs"
       => /\ ret.type = "list"
          /\ Len(ret.v) = 4
          /\ \A i \in 1..4 : ret.v[i][1] = i /\ ret.v[i][2].type = "float"

\* C8: whenever the preamp bias of feed f is off, read_PM of both channels
\* of f returns the floor 1e-10, whatever the load state, the noise-diode
\* state and the attenuation.
C8_PreampOffFloor ==
  \A f \in {1, 2} :
    feed[f].preamp_state = 0
    => /\ \A pol \in {"E", "H"}, r \in Draws :
            read_PM(feed[f], nd, pol, r).ret = PyFloat(1, 10000000)
       /\ (call.op = "read_PMs" /\ ret.type = "list")
            => /\ ret.v[2 * f - 1][2] = PyFloat(1, 10000000)
               /\ ret.v[2 * f][2] = PyFloat(1, 10000000)

C8_Witness ==
  /\ call.op = "read_PMs"
  /\ ret.type = "list"
  /\ feed[1].preamp_state = 0
  /\ feed[1].load.cls = "AmbientLoad"
  /\ feed[1].load.state = 1
  /\ nd.state = 1
  /\ nd.atten.atten = -300
  /\ ret.v[1][2] = PyFloat(1, 10000000)
  /\ ret.v[2][2] = PyFloat(1, 10000000)
  /\ ret.v[3][2] # PyFloat(1, 10000000)

\* C9: set_preamp_bias(f, s) for f in {1,2} leaves the preamp bias of feed
\* f equal to s and the preamp bias of the other feed unchanged.
C9_SetPreampBiasDelegates ==
  [][(call'.op = "set_preamp_bias" /\ call'.args[1] \in {1, 2})
       => /\ feed'[call'.args[1]].preamp_state = call'.args[2]
          /\ feed'[3 - call'.args[1]].preamp_state
               = feed[3 - call'.args[1]].preamp_state]_vars

\* C10: in every reachable state there are exactly the feeds 1 and 2, and
\* each still owns an AmbientLoad, with a two-valued state and its physical
\* temperature, and exactly the channels E and H.
C10_FeedsOwnLoadAndChannels ==
  /\ DOMAIN feed = {1, 2}
  /\ \A f \in {1, 2} :
       /\ feed[f].load.cls = "AmbientLoad"
       /\ feed[f].load.state \in {0, 1}
       /\ feed[f].load.temp = AmbientLoad.temp
       /\ DOMAIN feed[f].chan = {"E", "H"}

\* the request just processed is the construction of K_FE
Constructed == call.op = "__init__"

\* C11: immediately after the construction of K_FE both feeds' loads are
\* out (state 0), the noise diode is off (state 0), both feeds' preamp bias
\* is on (state 1) and all four channels' power-meter mode is 'W'.
C11_InitialState ==
  Constructed
  => /\ nd.state = 0
     /\ \A f \in {1, 2} :
          /\ AmbientLoad_get_state(feed[f].load) = 0
          /\ feed[f].preamp_state = 1
          /\ \A pol \in {"E", "H"} : feed[f].chan[pol].PM_mode = "W"

C11_Witness ==
  /\ Constructed
  /\ DOMAIN feed = {1, 2}
  /\ feed[2].chan.H.PM_mode = "W"
  /\ feed[1].load.state = 0
  /\ feed[2].preamp_state = 1
  /\ nd.state = 0

\* C12: set_atten(dB) stores dB as the attenuation and recomputes the noise
\* diode's temperature: the call returns, and after any sequence of
\* set_atten calls the stored temperature is max (384.6 K) times the gain
\* of the current attenuation.
C12_SetAttenRecomputesTemp ==
  /\ nd.temp = (nd.max * gain(nd.atten.atten)) \div 1000
  /\ call.op = "set_atten"
       => (ret.type # "raise" /\ nd.atten.atten = call.args[1])

\* the request just processed toggles the noise diode
NDToggled == call.op = "set_ND_state" \/ Dispatched(23) \/ Dispatched(24)

\* C13: toggling the noise diode (NoiseDiode.set_state, K_FE.set_ND_state,
\* option codes 23 and 24) never changes the attenuator's attenuation: it
\* is after the toggle what it was before, so also after any sequence of
\* toggles.
C13_NDToggleKeepsAtten ==
  [][/\ \A state \in {0, 1} :
          NoiseDiode_set_state(nd, state).atten.atten = nd.atten.atten
     /\ NDToggled' => nd'.atten.atten = nd.atten.atten]_vars

C13_Witness ==
  /\ Dispatched(23)
  /\ hist.nd = "on"
  /\ nd.state = 1
  /\ nd.atten.atten = -300

\* the option codes that set a power-meter mode
PMModeCodes == (390..393) \cup (400..403)

\* the request just processed is set_WBDC with a power-meter mode code
PMModeSet == call.op = "set_WBDC" /\ call.args[1] \in PMModeCodes

\* C14: setting a channel's power-meter mode (Channel.set_PM_mode, option
\* codes 390-393 and 400-403) changes only that channel's mode: read_PM of
\* every channel returns for the same jitter the value it returned before,
\* under 'W' as under 'dBm', and no load, noise-diode or preamp state and
\* no other channel's mode changes.
C14_PMModeOnlyMode ==
  [][PMModeSet'
       => /\ nd' = nd
          /\ \A f \in {1, 2} :
               /\ feed'[f].load = feed[f].load
               /\ feed'[f].preamp_state = feed[f].preamp_state
               /\ \A pol \in {"E", "H"}, r \in Draws :
                    /\ read_PM(feed'[f], nd', pol, r).ret
                         = read_PM(feed[f], nd, pol, r).ret
                    /\ \A mode \in {"W", "dBm"} :
                         read_PM([feed[f] EXCEPT
                                    !.chan[pol] = set_PM_mode(@, mode)],
                                 nd, pol, r).ret
                           = read_PM(feed[f], nd, pol, r).ret
          /\ \E f \in {1, 2}, pol \in {"E", "H"} :
               \A g \in {1, 2}, q \in {"E", "H"} :
                 <<g, q>> # <<f, pol>> => feed'[g].chan[q] = feed[g].chan[q]]_vars

C14_Witness ==
  /\ Dispatched(401)
  /\ feed[1].chan.H.PM_mode = "dBm"
  /\ feed[1].chan.E.PM_mode = "W"
  /\ feed[2].chan.E.PM_mode = "dBm"
  /\ feed[1].preamp_state = 1
  /\ feed[1].load = [AmbientLoad EXCEPT !.state = 1]
  /\ nd.state = 1

\* the channel (feed, pol) that the low digit k of a mode code stands for
ChannelCode(k) ==
  CASE k = 0 -> <<1, "E">> [] k = 1 -> <<1, "H">>
    [] k = 2 -> <<2, "E">> [] k = 3 -> <<2, "H">>

\* C15: for k in {0,1,2,3}, set_WBDC(390+k) sets the power-meter mode to
\* 'W' and set_WBDC(400+k) sets it to 'dBm' for exactly the channel encoded
\* by k, 0 -> (feed 1, E), 1 -> (feed 1, H), 2 -> (feed 2, E),
\* 3 -> (feed 2, H); the mode of the three other channels stays.
C15_PMModeChannelCode ==
  [][\A k \in 0..3, mode \in {"W", "dBm"} :
       Dispatched((IF mode = "W" THEN 390 ELSE 400) + k)'
       => \A f \in {1, 2}, pol \in {"E", "H"} :
            feed'[f].chan[pol].PM_mode =
              IF <<f, pol>> = ChannelCode(k) THEN mode
              ELSE feed[f].chan[pol].PM_mode]_vars

C15_Witness ==
  /\ Dispatched(393)
  /\ feed[2].chan.H.PM_mode = "W"
  /\ feed[2].chan.E.PM_mode = "dBm"
  /\ feed[1].chan.H.PM_mode = "dBm"
  /\ feed[1].chan.E.PM_mode = "dBm"

\* the dict that read_temp is said to return
ReadTempResult(r) ==
  /\ r.type = "dict"
  /\ DOMAIN r.v = {"load1", "load2", "12K", "70K"}
  /\ r.v["load1"] = AmbientLoad.temp
  /\ r.v["load2"] = AmbientLoad.temp
  /\ r.v["12K"] >= 15000 /\ r.v["12K"] < 15010
  /\ r.v["70K"] >= 80000 /\ r.v["70K"] < 80500

\* C16: read_temp returns a mapping with exactly the keys "load1", "load2",
\* "12K" and "70K"; load1 and load2 are the ambient-load temperature 320 K
\* of feed 1 and feed 2, "12K" lies in [15, 15.01) and "70K" in [80, 80.5),
\* on a fresh K_FE and after any sequence of requests.
C16_ReadTempMapping ==
  /\ \A r1 \in Draws, r2 \in Draws : ReadTempResult(read_temp(r1, r2).ret)
  /\ call.op = "read_temp" => ReadTempResult(ret)

\* feed f with its ambient load put in state s (AmbientLoad.set_state)
WithLoad(f, s) == [feed[f] EXCEPT !.load = AmbientLoad_set_state(@, s)]

\* noise diode n put in state s (NoiseDiode.set_state)
WithND(n, s) == NoiseDiode_set_state(n, s)

\* what the noise diode in state n adds to the T_op of read_PM, in mK
NDExcess(n) == IF n.state # 0 THEN (n.max * gain(n.atten.atten)) \div 1000 ELSE 0

\* C17: for every feed and polarization with the preamp bias on and the
\* same noise-diode state, the T_op that read_PM uses with the load in
\* exceeds the T_op with the load out by T_amb - (T_CBG + T_rs + T_atm)
\* = 293.15 - 13.73 = 279.42 K up to the jitter terms, load jitter in
\* [0, 0.1) and sky jitter in [0, 0.5), and the difference is strictly
\* positive for every jitter value.
C17_LoadInExceedsLoadOut ==
  \A f \in {1, 2} :
    (feed[f].preamp_state = 1 /\ HasAttr(feed[f].load, "set_state"))
    => \A pol \in {"E", "H"} :
         LET load_ins == {<<r, read_PM(WithLoad(f, 1), nd, pol, r).ret>> : r \in Draws}
             load_outs == {<<r, read_PM(WithLoad(f, 0), nd, pol, r).ret>> : r \in Draws}
         IN  /\ T_amb - (T_CBG + T_rs + T_atm) = 279420
             /\ \A i \in load_ins, o \in load_outs :
                   LET r_in == i[1]
                       r_out == o[1]
                       load_in == i[2]
                       load_out == o[2]
                       diff == load_in.num - load_out.num
                   IN  /\ load_in.type = "float" /\ load_out.type = "float"
                       /\ load_in.den = load_out.den
                       /\ diff = 279420 + jitter(100, r_in) - jitter(500, r_out)
                       /\ diff > 279420 - 500
                       /\ diff < 279420 + 100
                       /\ diff > 0
             /\ \A r \in Draws :
                   <<r, read_PM(feed[f], nd, pol, r).ret>> \in
                     IF feed[f].load.state # 0 THEN load_ins ELSE load_outs

C17_Witness ==
  /\ call.op = "read_PMs"
  /\ ret.type = "list"
  /\ feed[1].preamp_state = 1
  /\ feed[1].load = [AmbientLoad EXCEPT !.state = 1]
  /\ nd.state = 0
  /\ ret.v[1][2] = read_PM(WithLoad(1, 1), nd, "E", 1).ret
  /\ ret.v[1][2].num = T_load(1, "E") + jitter(100, 1)
  /\ read_PM(WithLoad(1, 0), nd, "E", 1).ret.num = T_sky(1, "E") + jitter(500, 1)

\* C18: for every channel with the preamp bias on and the same load state,
\* turning the noise diode on increases the T_op that read_PM uses by
\* exactly the diode's current temperature max*gain(attenuation), for the
\* same jitter, where the attenuation is the one most recently set: the
\* one of the construction until set_atten is called, then the argument of
\* the last set_atten.
C18_NDAddsTemperature ==
  /\ [][/\ call'.op = "set_atten" => nd'.atten.atten = call'.args[1]
        /\ call'.op # "set_atten" => nd'.atten.atten = nd.atten.atten]_vars
  /\ [](\A f \in {1, 2} :
          (feed[f].preamp_state = 1 /\ HasAttr(feed[f].load, "state"))
          => \A pol \in {"E", "H"}, r \in Draws :
               LET on == read_PM(feed[f], WithND(nd, 1), pol, r).ret
                   off == read_PM(feed[f], WithND(nd, 0), pol, r).ret
               IN  /\ on.type = "float" /\ off.type = "float"
                   /\ on.den = off.den
                   /\ on.num - off.num
                        = (nd.max * gain(nd.atten.atten)) \div 1000
                   /\ on.num - off.num = NDExcess(WithND(nd, 1))
                   /\ read_PM(feed[f], nd, pol, r).ret
                        = IF nd.state # 0 THEN on ELSE off)

C18_Witness ==
  /\ call.op = "read_PMs"
  /\ ret.type = "list"
  /\ nd.state = 1
  /\ nd.atten.atten = -300
  /\ feed[2].preamp_state = 1
  /\ feed[2].load = [AmbientLoad EXCEPT !.state = 1]
  /\ ret.v[3][2].type = "float"
  /\ ret.v[3][2].num = T_load(2, "E") + 192684

\* the request just processed names a feed other than 1 and 2
InvalidFeed ==
  /\ call.op \in {"get_feed", "set_feed", "set_preamp_bias"}
  /\ call.args[1] \notin {1, 2}

\* C19: for every feed ID outside {1,2}, get_feed, set_feed and
\* set_preamp_bias fail with the error of an invalid feed ID, the KeyError
\* of the lookup self.feed[feed], and the state is after the failed call
\* what it was before.
C19_InvalidFeedRejected ==
  [][InvalidFeed'
       => /\ ret'.type = "raise"
          /\ ret'.exc = "KeyError"
          /\ feed' = feed
          /\ nd' = nd]_vars

\* the request just processed is set_feed with a string that reads 'sky'
SetFeedSky == call.op = "set_feed" /\ lower(strip(call.args[2])) = SKY

\* the outcome o of a request leaves the state as it is and answers as the
\* request just processed did
SameAgain(o) == o.feed = feed /\ o.nd = nd /\ o.ret = ret /\ o.log = log

\* C20: setting a feed to sky is idempotent: for every feed f, in the
\* state that set_feed(f, "sky") leaves, the same call again leaves the
\* same state (so get_feed, option 12, read_PMs and every other request
\* give what they gave after the first call) and answers as the first did;
\* likewise for an option code 13-16 dispatched twice.
C20_SetSkyIdempotent ==
  /\ SetFeedSky => SameAgain(set_feed(call.args[1], call.args[2]))
  /\ \A option \in 13..16 : Dispatched(option) => SameAgain(set_WBDC(option))

C20_Witness ==
  /\ SetFeedSky
  /\ call.args[1] = 2
  /\ call.args[2] # SKY
  /\ feed[2].load = IntObj(0)
  /\ feed[1].load = [AmbientLoad EXCEPT !.state = 1]
  /\ set_feed(2, SKY).feed = feed
  /\ set_WBDC(13).feed # feed

\* the feed that the option codes 13/14 (feed 1) and 15/16 (feed 2) name
LoadCodeFeed(option) == IF option \in {13, 14} THEN 1 ELSE 2

\* the request just processed is an explicit set of the load of feed f
LoadSetFor(f) ==
  \/ Dispatched(11 + 2 * f)
  \/ Dispatched(12 + 2 * f)
  \/ (call.op = "set_feed" /\ call.args[1] = f)

\* C21: option codes 13, 14, 15 and 16 change only the load state of the
\* feed they name: the other feed's load, both preamp bias states, the
\* noise diode with its attenuation, the load temperatures and all
\* power-meter modes are unchanged; and the load of a feed changes by no
\* request other than an explicit set for that feed.
C21_LoadCodesOnlyLoad ==
  [][/\ \A option \in 13..16 :
          Dispatched(option)'
          => LET f == LoadCodeFeed(option)
             IN  /\ nd' = nd
                 /\ feed'[3 - f] = feed[3 - f]
                 /\ feed'[f].preamp_state = feed[f].preamp_state
                 /\ feed'[f].chan = feed[f].chan
                 /\ feed'[f].load.cls = feed[f].load.cls
                 /\ HasAttr(feed[f].load, "temp")
                      => /\ feed'[f].load.temp = feed[f].load.temp
                         /\ feed'[f].load.state = 1 - (option % 2)
                 /\ ~HasAttr(feed[f].load, "temp")
                      => feed'[f].load = feed[f].load
     /\ \A f \in {1, 2} :
          feed'[f].load # feed[f].load => LoadSetFor(f)']_vars

C21_Witness ==
  /\ Dispatched(16)
  /\ ret = PyNone
  /\ feed[2].load = [AmbientLoad EXCEPT !.state = 1]
  /\ feed[1].load = AmbientLoad
  /\ feed[1].preamp_state = 0
  /\ feed[2].chan.E.PM_mode = "dBm"
  /\ nd.state = 1
  /\ nd.atten.atten = -300

\* the T_op of read_PM for feed object fobj, in mK, before the noise diode
\* is added
T_op_of(fobj, pol, r) ==
  IF fobj.load.state # 0 THEN T_load(fobj.number, pol) + jitter(100, r)
  ELSE T_sky(fobj.number, pol) + jitter(500, r)

\* C22: option codes 25/26 switch the preamp bias on/off for feed 1 only
\* and 27/28 for feed 2 only, and the switch affects both channels of that
\* feed: after 26 (28) both E and H of feed 1 (feed 2) read the floor while
\* the other feed, and so what its channels read, is as before, and after
\* 25 (27) they read the value computed from load and noise diode again.
C22_PreampCodesPerFeed ==
  /\ [][\A option \in 25..28 :
          Dispatched(option)'
          => LET f == IF option \in {25, 26} THEN 1 ELSE 2
             IN  /\ feed'[f].preamp_state = option % 2
                 /\ feed'[f].load = feed[f].load
                 /\ feed'[f].chan = feed[f].chan
                 /\ feed'[3 - f] = feed[3 - f]
                 /\ nd' = nd]_vars
  /\ [](\A f \in {1, 2}, pol \in {"E", "H"}, r \in Draws :
          LET reading == read_PM(feed[f], nd, pol, r).ret
          IN  /\ feed[f].preamp_state = 0 => reading = PM_floor
              /\ (feed[f].preamp_state = 1 /\ HasAttr(feed[f].load, "state"))
                   => reading = PyFloat(T_op_of(feed[f], pol, r) + NDExcess(nd),
                                        tsys_factor[f][pol]))

C22_Witness ==
  /\ Dispatched(27)
  /\ feed[2].preamp_state = 1
  /\ feed[1].preamp_state = 0
  /\ nd.state = 1
  /\ feed[2].load = [AmbientLoad EXCEPT !.state = 1]
  /\ read_PM(feed[1], nd, "E", 1).ret = PM_floor
  /\ read_PM(feed[1], nd, "H", 0).ret = PM_floor
  /\ read_PM(feed[2], nd, "H", 0).ret.num = T_load(2, "H") + NDExcess(nd)

-----------------------------------------------------------------------------
(* Several remote callers of one FEServer.  The request loop that          *)
(* launch_server(threaded=False) runs is outside K2_simulator.py; it is    *)
(* taken to serve one request to completion before it takes the next.      *)
(* K_FE.read_PMs is followed one channel read at a time.                   *)

\* the remote callers
Callers == {"a", "b"}

\* what a caller asks for: the commands that change what read_PM computes
\* from (load, noise diode, preamp bias) and the reading itself
ServeArgs ==
  {Request("set_WBDC", <<option>>) : option \in {13, 14, 23, 24, 25, 26}}
    \cup {Request("read_PMs", <<>>)}

\* a bug: a request is taken while another one is being served
ServerFree_threaded == TRUE

\* the request loop takes a request only when none is being served
ServerFree == call = Idle

\* the request of caller c while it is being served
Served(c, request) == [op |-> request.op, args |-> request.args, caller |-> c]

\* caller c sends a request and waits for the answer
Submit(c) ==
  /\ pending[c] = Idle
  /\ \E request \in ServeArgs : pending' = [pending EXCEPT ![c] = request]
  /\ UNCHANGED <<feed, nd, call, ret, log, hist, client, legacy>>

\* the request loop takes the set_WBDC request of caller c and serves it
Serve_set_WBDC(c) ==
  /\ ServerFree
  /\ pending[c] # Idle
  /\ pending[c].op = "set_WBDC"
  /\ LET o == set_WBDC(pending[c].args[1])
     IN  feed' = o.feed /\ nd' = o.nd
  /\ pending' = [pending EXCEPT ![c] = Idle]
  /\ UNCHANGED <<call, ret, log, hist, client, legacy>>

\* the request loop takes the read_PMs request of caller c: number = 0,
\* readings = []; hist keeps the configuration the call starts from
Serve_read_PMs(c) ==
  /\ ServerFree
  /\ pending[c] # Idle
  /\ pending[c].op = "read_PMs"
  /\ call' = Served(c, pending[c])
  /\ ret' = PyList(<<>>)
  /\ hist' = [feed |-> feed, nd |-> nd]
  /\ UNCHANGED <<feed, nd, log, pending, client, legacy>>

\* a read_PMs call is being served and has channels left to read
Reading == call.op = "read_PMs" /\ ret.type = "list" /\ Len(ret.v) < Len(PM_order(feed))

\* one pass of the loop of K_FE.read_PMs: the next channel is read
Serve_read_PM ==
  /\ Reading
  /\ \E r \in Draws :
       LET number == Len(ret.v) + 1
           ch == PM_order(feed)[number]
           o == read_PM(feed[ch[1]], nd, ch[2], r)
       IN  /\ nd' = o.nd
           /\ ret' = IF o.ret.type = "raise" THEN o.ret
                     ELSE PyList(Append(ret.v, <<number, o.ret>>))
  /\ UNCHANGED <<feed, call, log, hist, pending, client, legacy>>

\* read_PMs returns and the answer goes back to the caller
Serve_return ==
  /\ call.op = "read_PMs"
  /\ ~Reading
  /\ pending' = [pending EXCEPT ![call.caller] = Idle]
  /\ call' = Idle
  /\ ret' = PyNone
  /\ UNCHANGED <<feed, nd, log, hist, client, legacy>>

ServeInit ==
  /\ feed = K_FE_feed
  /\ nd = NoiseDiode
  /\ call = Idle
  /\ ret = PyNone
  /\ log = NoLog
  /\ hist = [feed |-> K_FE_feed, nd |-> NoiseDiode]
  /\ pending = [c \in Callers |-> Idle]
  /\ client = NoClient
  /\ legacy = NoLegacy

ServeNext ==
  \/ \E c \in Callers : Submit(c)
  \/ \E c \in Callers : Serve_set_WBDC(c)
  \/ \E c \in Callers : Serve_read_PMs(c)
  \/ Serve_read_PM
  \/ Serve_return

SpecServe == ServeInit /\ [][ServeNext]_vars

\* C25: requests are served one at a time to completion: with several
\* callers sending commands concurrently, every reading that a read_PMs
\* call has taken, and so all four it returns, is computed from the load
\* states, preamp states and noise-diode state the call started from, and
\* no set command of another caller takes effect while it is served.
C25_ReadPMsOneConfiguration ==
  call.op = "read_PMs"
  => /\ feed = hist.feed
     /\ nd = hist.nd
     /\ ret.type = "list"
     /\ \A i \in 1..Len(ret.v) :
          /\ ret.v[i][1] = i
          /\ \E r \in Draws :
               ret.v[i][2] =
                 read_PM(hist.feed[PM_order(hist.feed)[i][1]], hist.nd,
                         PM_order(hist.feed)[i][2], r).ret

C25_Witness ==
  /\ call.op = "read_PMs"
  /\ call.caller = "a"
  /\ ret.type = "list"
  /\ Len(ret.v) = 4
  /\ pending["b"] = Request("set_WBDC", <<14>>)
  /\ feed[1].load.state = 0
  /\ nd.state = 1
  /\ ret.v[1][2].num = T_sky(1, "E") + jitter(500, 1) + NDExcess(nd)
  /\ ret.v[2][2].num = T_sky(1, "H") + NDExcess(nd)

-----------------------------------------------------------------------------
(* The K_4ch client of __init__.py.  Its attribute hardware is False or    *)
(* the Pyro proxy of the FEServer; a call through the proxy reaches the    *)
(* server (up) or raises CommunicationError.                               *)

PyBool(b) == [type |-> "bool", v |-> b]
PyTuple(seq) == [type |-> "tuple", v |-> seq]

\* Pyro5.api.Proxy(uri)
Proxy == [type |-> "Proxy", uri |-> "PYRO:FE@localhost:50000"]

\* the truth value Python gives a value in `if value:`
Truthy(x) ==
  CASE x.type = "bool" -> x.v
    [] x.type = "int" -> x.v # 0
    [] x.type = "NoneType" -> FALSE
    [] OTHER -> TRUE

\* the module's lists feeds and pols, and the dict plane
feeds == <<"F1", "F2">>
pols == <<"P1", "P2">>
plane == [P1 |-> "E", P2 |-> "H"]

\* int(name[-1]) of a feed name "F1", "F2"
LastDigit(name) == IF name = "F1" THEN 1 ELSE 2

\* K_4ch.Channel.PowerMeter.__init__ for channel object chan and pol
PowerMeter(chan, hardware, pol) ==
  LET p == IF pol \in {"P1", "E"} THEN 0 ELSE 1
  IN  [hardware |-> hardware,
       pol |-> p,
       name |-> IF p = 0 THEN <<"F", chan.number + 1, "P1">>
                ELSE <<"F", chan.number + 1, "P2">>,
       number |-> 1 + chan.number * 2 + p]

\* a bug: every channel gets the number of the first feed
Channel_4ch_first(hardware, name) ==
  LET chan == [name |-> name, number |-> 0, hardware |-> hardware]
  IN  [name |-> chan.name,
       number |-> chan.number,
       hardware |-> chan.hardware,
       load_in |-> [type |-> "unset"],
       preamp_on |-> [type |-> "unset"],
       PM |-> [pol \in {pols[i] : i \in 1..Len(pols)} |->
                 PowerMeter(chan, hardware, pol)]]

\* K_4ch.Channel.__init__ up to the call of retract_load: load_in and
\* preamp_on are not yet assigned
Channel_4ch(hardware, name) ==
  LET chan == [name |-> name, number |-> LastDigit(name) - 1,
               hardware |-> hardware]
  IN  [name |-> chan.name,
       number |-> chan.number,
       hardware |-> chan.hardware,
       load_in |-> [type |-> "unset"],
       preamp_on |-> [type |-> "unset"],
       PM |-> [pol \in {pols[i] : i \in 1..Len(pols)} |->
                 PowerMeter(chan, hardware, pol)]]

\* K_4ch.__init__ up to the creation of the channels: hardware is the
\* proxy or False, the channels are still to be made
K_4ch(hardware) ==
  [cls |-> "K_4ch",
   hardware |-> IF hardware THEN Proxy ELSE PyBool(FALSE),
   ND |-> [type |-> "unset"],
   channel |-> <<>>]

\* str.split('\n') on a text of words and "\n" tokens: the lines, the last
\* one being what follows the last "\n"
RECURSIVE split_lines(_, _)
split_lines(toks, line) ==
  IF toks = <<>> THEN <<line>>
  ELSE IF Head(toks) = "\n" THEN <<line>> \o split_lines(Tail(toks), <<>>)
  ELSE split_lines(Tail(toks), Append(line, Head(toks)))

\* seq[a:b] of Python for 0 <= a <= b
slice(seq, a, b) ==
  IF a >= Len(seq) THEN <<>>
  ELSE SubSeq(seq, a + 1, IF b < Len(seq) THEN b ELSE Len(seq))

\* outcome of a client method: the server state and the client object it
\* leaves and what it returns or raises
K4Outcome(fd, n, cl, r) ==
  [feed |-> fd, nd |-> n, client |-> cl, ret |-> r, log |-> NoLog]

\* self.hardware.<method>(...): the outcome o of the server's method when
\* the server is reached, CommunicationError when it is not
hardware_call(up, o) ==
  IF up THEN o ELSE Outcome(feed, nd, Raise("CommunicationError"), NoLog)

\* an exception of a call through the proxy goes on to the client's caller
\* (or its answer when the method just hands it on); log is what the server
\* logged
Propagate(o) == [K4Outcome(o.feed, o.nd, client, o.ret) EXCEPT !.log = o.log]

\* K_4ch.Channel.insert_load
Channel_insert_load(name, up) ==
  LET chan == client.channel[name]
      o == IF Truthy(chan.hardware)
             THEN hardware_call(up, set_WBDC(14 + 2 * chan.number))
             ELSE Outcome(feed, nd, PyNone, NoLog)
  IN  IF o.ret.type = "raise" THEN Propagate(o)
      ELSE K4Outcome(o.feed, o.nd,
                     [client EXCEPT !.channel[name].load_in = PyBool(TRUE)],
                     PyNone)

\* a bug: retract_load sends the code of insert_load
Channel_retract_load_inserts(name, up) ==
  LET chan == client.channel[name]
      o == IF Truthy(chan.hardware)
             THEN hardware_call(up, set_WBDC(14 + 2 * chan.number))
             ELSE Outcome(feed, nd, PyNone, NoLog)
  IN  IF o.ret.type = "raise" THEN Propagate(o)
      ELSE K4Outcome(o.feed, o.nd,
                     [client EXCEPT !.channel[name].load_in = PyBool(FALSE)],
                     PyNone)

\* K_4ch.Channel.retract_load
Channel_retract_load(name, up) ==
  LET chan == client.channel[name]
      o == IF Truthy(chan.hardware)
             THEN hardware_call(up, set_WBDC(13 + 2 * chan.number))
             ELSE Outcome(feed, nd, PyNone, NoLog)
  IN  IF o.ret.type = "raise" THEN Propagate(o)
      ELSE K4Outcome(o.feed, o.nd,
                     [client EXCEPT !.channel[name].load_in = PyBool(FALSE)],
                     PyNone)

\* K_4ch.Channel.set_preamp_on
Channel_set_preamp_on(name, up) ==
  LET chan == client.channel[name]
      o == IF Truthy(chan.hardware)
             THEN hardware_call(up, set_WBDC(25 + 2 * chan.number))
             ELSE Outcome(feed, nd, PyStr(<<"on">>), NoLog)
  IN  IF o.ret.type = "raise" THEN Propagate(o)
      ELSE K4Outcome(o.feed, o.nd,
                     [client EXCEPT !.channel[name].preamp_on = PyBool(TRUE)],
                     o.ret)

\* K_4ch.Channel.set_preamp_off
Channel_set_preamp_off(name, up) ==
  LET chan == client.channel[name]
      o == IF Truthy(chan.hardware)
             THEN hardware_call(up, set_WBDC(26 + 2 * chan.number))
             ELSE Outcome(feed, nd, PyStr(<<"off">>), NoLog)
  IN  IF o.ret.type = "raise" THEN Propagate(o)
      ELSE K4Outcome(o.feed, o.nd,
                     [client EXCEPT !.channel[name].preamp_on = PyBool(FALSE)],
                     o.ret)

\* the mode strings PowerMeter.set_mode is called with
ModeArgs == {"W", "dBm", "mW"}

\* mode.upper() == "W" and mode.lower() == "dbm" on these strings
upper_is_W(mode) == mode \in {"W", "w"}
lower_is_dbm(mode) == mode \in {"dBm", "DBM", "dbm"}

\* K_4ch.Channel.PowerMeter.set_mode of the power meter pol of channel name
PowerMeter_set_mode(name, pol, mode, up) ==
  LET pm == client.channel[name].PM[pol]
  IN  IF pm.hardware.type # "Proxy"
        THEN K4Outcome(feed, nd, client, Raise("AttributeError"))
      ELSE IF upper_is_W(mode)
        THEN Propagate(hardware_call(up, set_WBDC(390 + pm.number)))
      ELSE IF lower_is_dbm(mode)
        THEN Propagate(hardware_call(up, set_WBDC(400 + pm.number)))
      ELSE K4Outcome(feed, nd, client, Raise("UnboundLocalError"))

\* K_4ch.feed_states: the lines of the response that are parsed, lines[1:2]
feed_states_lines(lines) == slice(lines, 1, 2)

\* K_4ch.feed_states: the loop over the lines, from the i-th on
RECURSIVE feed_states_loop(_, _, _)
feed_states_loop(lines, i, cl) ==
  IF i > Len(lines) THEN [client |-> cl, ret |-> PyNone]
  ELSE LET parts == lines[i]
       IN  IF Len(parts) < 2 THEN [client |-> cl, ret |-> Raise("IndexError")]
           ELSE LET name == IF parts[2] = "1" THEN "F1"
                            ELSE IF parts[2] = "2" THEN "F2" ELSE "F?"
                IN  IF Len(parts) < 6
                      THEN [client |-> cl, ret |-> Raise("IndexError")]
                    ELSE IF name \notin DOMAIN cl.channel
                      THEN [client |-> cl, ret |-> Raise("KeyError")]
                    ELSE feed_states_loop(lines, i + 1,
                           [cl EXCEPT !.channel[name].load_in =
                              PyBool(parts[6] # "sky")])

\* K_4ch.feed_states
K_4ch_feed_states(up) ==
  IF Truthy(client.hardware)
    THEN LET o == hardware_call(up, set_WBDC(12))
         IN  IF o.ret.type = "raise" THEN Propagate(o)
             ELSE IF o.ret.type # "str"
               THEN K4Outcome(o.feed, o.nd, client, Raise("AttributeError"))
             ELSE LET lines == split_lines(o.ret.v, <<>>)
                      p == feed_states_loop(feed_states_lines(lines), 1, client)
                  IN  IF p.ret.type = "raise"
                        THEN K4Outcome(o.feed, o.nd, p.client, p.ret)
                      ELSE K4Outcome(o.feed, o.nd, p.client,
                                     PyTuple(<<p.client.channel["F1"].load_in,
                                               p.client.channel["F2"].load_in>>))
    ELSE K4Outcome(feed, nd, client, PyTuple(<<PyBool(TRUE), PyBool(TRUE)>>))

\* a bug: the flag is set before the server is asked
K_4ch_set_ND_on_eager(up) ==
  LET o == IF Truthy(client.hardware) THEN hardware_call(up, set_WBDC(23))
           ELSE Outcome(feed, nd, PyStr(<<"on">>), NoLog)
  IN  K4Outcome(o.feed, o.nd, [client EXCEPT !.ND = PyBool(TRUE)], o.ret)

\* K_4ch.set_ND_on
K_4ch_set_ND_on(up) ==
  LET o == IF Truthy(client.hardware) THEN hardware_call(up, set_WBDC(23))
           ELSE Outcome(feed, nd, PyStr(<<"on">>), NoLog)
  IN  IF o.ret.type = "raise" THEN Propagate(o)
      ELSE K4Outcome(o.feed, o.nd, [client EXCEPT !.ND = PyBool(TRUE)], o.ret)

\* K_4ch.set_ND_off
K_4ch_set_ND_off(up) ==
  LET o == IF Truthy(client.hardware) THEN hardware_call(up, set_WBDC(24))
           ELSE Outcome(feed, nd, PyStr(<<"off">>), NoLog)
  IN  IF o.ret.type = "raise" THEN Propagate(o)
      ELSE K4Outcome(o.feed, o.nd, [client EXCEPT !.ND = PyBool(FALSE)], o.ret)

\* K_4ch.get_ND_state
K_4ch_get_ND_state(up) ==
  IF Truthy(client.hardware)
    THEN LET o == hardware_call(up, set_WBDC(22))
         IN  IF o.ret.type = "raise" THEN Propagate(o)
             ELSE K4Outcome(o.feed, o.nd, [client EXCEPT !.ND = o.ret], o.ret)
    ELSE K4Outcome(feed, nd, client, client.ND)

\* the text str(datetime.datetime.utcnow()) of a simulated reading
utcnow == PyStr(<<"utcnow">>)

\* a bug: when the server does not answer, simulated readings are returned
\* and the client stays in simulation mode
K_4ch_read_PMs_fallback(up, rs) ==
  IF Truthy(client.hardware) /\ up
    THEN Propagate(hardware_call(up, read_PMs(rs)))
  ELSE K4Outcome(feed, nd, [client EXCEPT !.hardware = PyBool(FALSE)],
                 PyList([i \in 1..4 |->
                           <<(i - 1) + 1, utcnow, PyFloat(rs[i], RandomSteps)>>]))

\* K_4ch.read_PMs, rs[i] the i-th random draw
K_4ch_read_PMs(up, rs) ==
  IF Truthy(client.hardware) THEN Propagate(hardware_call(up, read_PMs(rs)))
  ELSE K4Outcome(feed, nd, client,
                 PyList([i \in 1..4 |->
                           <<(i - 1) + 1, utcnow, PyFloat(rs[i], RandomSteps)>>]))

\* K_4ch.read_temps, rs[i] the i-th random draw; values in mK
K_4ch_read_temps(up, rs) ==
  IF Truthy(client.hardware)
    THEN Propagate(hardware_call(up, read_temp(rs[1], rs[2])))
  ELSE K4Outcome(feed, nd, client,
                 PyDict([k \in {"load1", "12K", "load2", "70K"} |->
                           CASE k = "load1" -> jitter(300000, rs[1])
                             [] k = "12K" -> jitter(15000, rs[2])
                             [] k = "load2" -> jitter(300000, rs[3])
                             [] k = "70K" -> jitter(80000, rs[4])]))

\* one call that a client method makes: method m with arguments a
Prim(m, a) == [m |-> m, a |-> a]

\* a bug: without the server the client goes on in simulation mode
K_4ch_connect_fallback(hardware, up) ==
  K4Outcome(feed, nd, K_4ch(hardware /\ up), PyNone)

\* K_4ch.__init__, first part: the proxy is made and tried with
\* __get_state__, which raises CommunicationError when the server is not
\* reached and AttributeError, passed over, when it is
K_4ch_connect(hardware, up) ==
  IF hardware /\ ~up
    THEN K4Outcome(feed, nd, client, Raise("CommunicationError"))
  ELSE K4Outcome(feed, nd, K_4ch(hardware), PyNone)

\* K_4ch.__init__: self.channel[feed] = self.Channel(self, feed, ...), up to
\* the retract_load that ends Channel.__init__
K_4ch_new_channel(name) ==
  K4Outcome(feed, nd,
            [client EXCEPT !.channel =
               [n \in DOMAIN client.channel \cup {name} |->
                  IF n = name THEN Channel_4ch(client.hardware, name)
                  ELSE client.channel[n]]],
            PyNone)

\* the calls K_4ch.__init__ makes, in order
K_4ch_init(hardware) ==
  <<Prim("connect", <<hardware>>),
    Prim("Channel", <<feeds[1]>>), Prim("retract_load", <<feeds[1]>>),
    Prim("retract_load", <<feeds[1]>>),
    Prim("Channel", <<feeds[2]>>), Prim("retract_load", <<feeds[2]>>),
    Prim("retract_load", <<feeds[2]>>),
    Prim("set_ND_off", <<>>),
    Prim("feed_states", <<>>), Prim("get_ND_state", <<>>)>>

\* the calls K_4ch.update makes, in order
K_4ch_update == <<Prim("feed_states", <<>>), Prim("get_ND_state", <<>>)>>

\* the outcome of the call p, with the server reached or not and draws rs
Perform(p, up, rs) ==
  CASE p.m = "connect" -> K_4ch_connect(p.a[1], up)
    [] p.m = "Channel" -> K_4ch_new_channel(p.a[1])
    [] p.m = "retract_load" -> Channel_retract_load(p.a[1], up)
    [] p.m = "insert_load" -> Channel_insert_load(p.a[1], up)
    [] p.m = "set_preamp_on" -> Channel_set_preamp_on(p.a[1], up)
    [] p.m = "set_preamp_off" -> Channel_set_preamp_off(p.a[1], up)
    [] p.m = "set_mode" -> PowerMeter_set_mode(p.a[1], p.a[2], p.a[3], up)
    [] p.m = "feed_states" -> K_4ch_feed_states(up)
    [] p.m = "set_ND_on" -> K_4ch_set_ND_on(up)
    [] p.m = "set_ND_off" -> K_4ch_set_ND_off(up)
    [] p.m = "get_ND_state" -> K_4ch_get_ND_state(up)
    [] p.m = "read_PMs" -> K_4ch_read_PMs(up, rs)
    [] p.m = "read_temps" -> K_4ch_read_temps(up, rs)

\* the methods called on a constructed client, with their arguments; the
\* preamp bias is switched on channel F1
ClientArgs ==
  {Prim(m, <<>>) : m \in {"update", "feed_states", "set_ND_on", "set_ND_off",
                          "get_ND_state", "read_PMs", "read_temps"}}
    \cup {Prim(m, <<name>>) :
            m \in {"insert_load", "retract_load"}, name \in {"F1", "F2"}}
    \cup {Prim(m, <<"F1">>) : m \in {"set_preamp_on", "set_preamp_off"}}
    \cup {Prim("set_mode", <<name, pol, mode>>) :
            name \in {"F1", "F2"}, pol \in {"P1", "P2"}, mode \in ModeArgs}

\* the option codes other callers of the server send between the client's
\* calls
OtherArgs == {13, 14, 15, 16, 23, 24}

\* the call p goes to the server: every call of a client with a proxy does,
\* but for the making of a Channel and a set_mode with a mode that is neither
\* W nor dBm
Contacts(p) ==
  IF p.m = "connect" THEN p.a[1]
  ELSE /\ Truthy(client.hardware)
       /\ p.m # "Channel"
       /\ p.m = "set_mode" => (upper_is_W(p.a[3]) \/ lower_is_dbm(p.a[3]))

\* a client method being executed: the calls it still has to make; up is
\* FALSE when the call it made last went to the server and did not reach it
Executing(op, args, todo, up) ==
  [op |-> op, args |-> args, todo |-> todo, up |-> up]

\* the history of the client: whether it was constructed and with which
\* value of hardware
NoHistory == [constructed |-> FALSE, hardware |-> FALSE]

\* the draws a call uses: read_PMs and the simulated read_temps draw four
\* numbers, the server's read_temp two
DrawsOf(p) ==
  IF p.m = "read_PMs" \/ (p.m = "read_temps" /\ ~Truthy(client.hardware))
    THEN [1..4 -> Draws]
  ELSE IF p.m = "read_temps"
    THEN {rs \in [1..4 -> Draws] : rs[3] = 0 /\ rs[4] = 0}
  ELSE {[i \in 1..4 |-> 0]}

ClientInit ==
  /\ feed = K_FE_feed
  /\ nd = NoiseDiode
  /\ call = Idle
  /\ ret = PyNone
  /\ log = NoLog
  /\ hist = NoHistory
  /\ pending = NoPending
  /\ client = NoClient
  /\ legacy = NoLegacy

\* the method op(args) makes the first of the calls todo it has left; an
\* exception ends the method, and ends the construction without an object
Advance(op, args, todo) ==
  \E up \in IF Contacts(Head(todo)) THEN BOOLEAN ELSE {TRUE},
     rs \in DrawsOf(Head(todo)) :
    LET p == Head(todo)
        o == Perform(p, up, rs)
        raised == o.ret.type = "raise"
        compound == op \in {"__init__", "update"}
    IN  /\ feed' = o.feed
        /\ nd' = o.nd
        /\ log' = o.log
        /\ ret' = IF raised \/ ~compound THEN o.ret ELSE PyNone
        /\ client' = IF raised /\ op = "__init__" THEN NoClient ELSE o.client
        /\ call' = Executing(op, args, IF raised THEN <<>> ELSE Tail(todo), up)
        /\ hist' = IF p.m = "connect"
                     THEN [constructed |-> ~raised, hardware |-> p.a[1]]
                   ELSE IF raised /\ op = "__init__" THEN NoHistory
                   ELSE hist
        /\ UNCHANGED <<pending, legacy>>

\* K_4ch(name, hardware=hardware) is called
Construct ==
  /\ call = Idle
  /\ client = NoClient
  /\ \E hardware \in BOOLEAN :
       Advance("__init__", <<hardware>>, K_4ch_init(hardware))

\* a method of the constructed client is called
Invoke ==
  /\ call = Idle
  /\ client # NoClient
  /\ \E p \in ClientArgs :
       Advance(p.m, p.a, IF p.m = "update" THEN K_4ch_update ELSE <<p>>)

\* the method being executed makes its next call
Do ==
  /\ call # Idle
  /\ call.todo # <<>>
  /\ Advance(call.op, call.args, call.todo)

\* the method returns to its caller
Return ==
  /\ call # Idle
  /\ call.todo = <<>>
  /\ call' = Idle
  /\ ret' = PyNone
  /\ log' = NoLog
  /\ UNCHANGED <<feed, nd, hist, pending, client, legacy>>

\* another caller of the server has an option code served
Other_set_WBDC ==
  /\ call = Idle
  /\ \E option \in OtherArgs :
       LET o == set_WBDC(option) IN feed' = o.feed /\ nd' = o.nd
  /\ UNCHANGED <<call, ret, log, hist, pending, client, legacy>>

ClientNext ==
  \/ Construct
  \/ Invoke
  \/ Do
  \/ Return
  \/ Other_set_WBDC

SpecClient == ClientInit /\ [][ClientNext]_vars

\* the value of the attribute hardware for the constructor argument h
HardwareFor(h) == IF h THEN Proxy ELSE PyBool(FALSE)

\* a method of the client has just made a call
ClientStepped == call # Idle /\ "todo" \in DOMAIN call

\* C23: hardware or simulation is fixed at construction: in every state
\* after it the client's attribute hardware, and that of its channels and
\* power meters, has the value the constructor gave it; no method changes
\* it; a client in hardware mode never returns the simulated power-meter
\* readings and a client in simulation mode never changes the server.
C23_HardwareFixed ==
  /\ [](client # NoClient
          => /\ hist.constructed
             /\ client.hardware = HardwareFor(hist.hardware)
             /\ \A name \in DOMAIN client.channel :
                  /\ client.channel[name].hardware = client.hardware
                  /\ \A pol \in {"P1", "P2"} :
                       client.channel[name].PM[pol].hardware = client.hardware
             /\ (call.op = "read_PMs" /\ ret.type = "list")
                  => \A i \in 1..Len(ret.v) :
                       Len(ret.v[i]) = IF hist.hardware THEN 2 ELSE 3)
  /\ [][/\ (client # NoClient /\ client' # NoClient)
             => client'.hardware = client.hardware
        /\ (ClientStepped' /\ call' # call /\ ~hist'.hardware)
             => (feed' = feed /\ nd' = nd)]_vars

C23_Witness ==
  /\ call.op = "read_PMs"
  /\ ~call.up
  /\ hist.hardware
  /\ ret = Raise("CommunicationError")
  /\ client.hardware = Proxy
  /\ client.channel["F2"].PM["P2"].hardware = Proxy

\* C24: when K_4ch is constructed with hardware=True and the server is not
\* reached, the construction fails with CommunicationError, raised to the
\* caller, and leaves no client; it never goes on in simulation mode.
C24_NoFallbackAtConstruction ==
  (ClientStepped /\ call.op = "__init__" /\ call.args[1] /\ ~call.up)
  => /\ ret = Raise("CommunicationError")
     /\ client = NoClient
     /\ ~hist.constructed
     /\ call.todo = <<>>

C24_Witness ==
  /\ call.op = "__init__"
  /\ call.args[1]
  /\ ~call.up
  /\ ret = Raise("CommunicationError")
  /\ client = NoClient
  /\ call.todo = <<>>

\* feed_states() or update() of a client with a proxy has just come back
FeedStatesReturned ==
  /\ ClientStepped
  /\ call.op \in {"feed_states", "update"}
  /\ call.todo = <<>>
  /\ hist.hardware
  /\ ret.type # "raise"

\* C26: with hardware attached, after feed_states() or update() returns,
\* load_in of channel F1 and of channel F2 equal the server's load state of
\* feed 1 and of feed 2, whoever changed the server's state last.
C26_FeedStatesBothFeeds ==
  FeedStatesReturned
  => \A n \in 1..2 :
       client.channel[feeds[n]].load_in = PyBool(feed[n].load.state = 1)

\* C27: with or without hardware, feed_states() returns the pair (load_in of
\* channel F1, load_in of channel F2), the client's record of the loads as
\* insert_load and retract_load set it last.
C27_FeedStatesReturnsRecord ==
  (ClientStepped /\ call.op = "feed_states" /\ ret.type # "raise")
  => ret = PyTuple(<<client.channel["F1"].load_in,
                     client.channel["F2"].load_in>>)

\* C28: set_ND_on and set_ND_off return a string, in simulation mode and
\* with the server attached, where the response is what the server returns
\* for the option codes 23 and 24; after the call the client's ND flag is
\* True for set_ND_on and False for set_ND_off.
C28_SetNDReturnsText ==
  (ClientStepped /\ call.op \in {"set_ND_on", "set_ND_off"}
     /\ ret.type # "raise")
  => /\ ret.type = "str"
     /\ client.ND = PyBool(call.op = "set_ND_on")

\* C29: read_PMs returns 4 entries with the indices 1..4 in ascending order,
\* every entry of the shape (index, value), in simulation mode as well as
\* when it forwards to the server's read_PMs.
C29_ReadPMsSameShape ==
  (ClientStepped /\ call.op = "read_PMs" /\ ret.type # "raise")
  => /\ ret.type = "list"
     /\ Len(ret.v) = 4
     /\ \A i \in 1..4 : Len(ret.v[i]) = 2 /\ ret.v[i][1] = i

\* the server's channel (feed, pol) that the client's power meter pol of the
\* channel name stands for
ServerChannel(name, pol) ==
  <<LastDigit(name), IF pol = "P1" THEN "E" ELSE "H">>

\* C30: set_mode("W") and set_mode("dBm") of the power meters F1P1, F1P2,
\* F2P1, F2P2 of a client with a proxy send an option code that set_WBDC
\* maps to (feed 1,E), (feed 1,H), (feed 2,E), (feed 2,H): after the call
\* that channel of the server has the mode asked for, and the server has
\* not logged an unrecognized option.
C30_SetModeSameChannel ==
  (ClientStepped /\ call.op = "set_mode" /\ hist.hardware
     /\ call.args[3] \in {"W", "dBm"} /\ ret.type # "raise")
  => LET ch == ServerChannel(call.args[1], call.args[2])
     IN  /\ feed[ch[1]].chan[ch[2]].PM_mode = call.args[3]
         /\ log.level # "error"

\* the per-feed operations of a client channel
PerFeedOps == {"insert_load", "retract_load", "set_preamp_on", "set_preamp_off"}

\* the server's feed fobj after the per-feed operation op reached it
FeedAfter(op, fobj) ==
  CASE op = "insert_load" -> [fobj EXCEPT !.load.state = 1]
    [] op = "retract_load" -> [fobj EXCEPT !.load.state = 0]
    [] op = "set_preamp_on" -> [fobj EXCEPT !.preamp_state = 1]
    [] op = "set_preamp_off" -> [fobj EXCEPT !.preamp_state = 0]

\* the outcome o of the per-feed operation op on channel name changes the
\* server's feed of that channel as op says and nothing else of the server
OwnFeedOnly(op, name, o) ==
  LET n == LastDigit(name)
  IN  /\ o.feed[n] = FeedAfter(op, feed[n])
      /\ o.feed[3 - n] = feed[3 - n]
      /\ o.nd = nd

\* the per-feed operation op of channel name, with the server in reach
PerFeedOp(op, name) ==
  CASE op = "insert_load" -> Channel_insert_load(name, TRUE)
    [] op = "retract_load" -> Channel_retract_load(name, TRUE)
    [] op = "set_preamp_on" -> Channel_set_preamp_on(name, TRUE)
    [] op = "set_preamp_off" -> Channel_set_preamp_off(name, TRUE)

\* C31: on channel F1 / F2 insert_load sends 14 / 16, retract_load 13 / 15,
\* set_preamp_on 25 / 27 and set_preamp_off 26 / 28: an operation on the
\* client's channel Fn changes the server's feed n as the operation says and
\* leaves the other feed and the noise diode as they were. Checked on every
\* step that makes such a call and, for every client with a proxy between
\* calls, on the outcome of each of the eight calls.
C31_PerFeedOwnCode ==
  /\ [][(ClientStepped' /\ call' # call /\ call'.op \in PerFeedOps
           /\ hist'.hardware /\ call'.up)
          => OwnFeedOnly(call'.op, call'.args[1],
                         [feed |-> feed', nd |-> nd'])]_vars
  /\ []((call = Idle /\ client # NoClient /\ hist.hardware)
          => \A op \in PerFeedOps, name \in {"F1", "F2"} :
               OwnFeedOnly(op, name, PerFeedOp(op, name)))

C31_Witness ==
  /\ ClientStepped
  /\ call.op = "insert_load"
  /\ call.args = <<"F2">>
  /\ hist.hardware
  /\ call.up
  /\ feed[2].load.state = 1
  /\ feed[1].load.state = 0
  /\ client.channel["F2"].load_in = PyBool(TRUE)

\* C32: whenever K_FE.set_feed(feed, state) fails with an error, the state
\* is what it was before the call: the feed's load is still its AmbientLoad
\* with the state it had.
C32_FailedSetFeedKeepsState ==
  [][(call'.op = "set_feed" /\ call' # call /\ ret'.type = "raise")
       => (feed' = feed /\ nd' = nd)]_vars

-----------------------------------------------------------------------------
\* The client as the only actor on the server: no other caller sends codes.

AloneNext ==
  \/ Construct
  \/ Invoke
  \/ Do
  \/ Return

SpecAlone == ClientInit /\ [][AloneNext]_vars

\* the construction or a method of the client has come to its end, by a
\* return or by an exception, and the client exists
Completed ==
  /\ client # NoClient
  /\ call = Idle \/ (ClientStepped /\ call.todo = <<>>)

\* C33: with one client with hardware as the only actor on the server, after
\* the construction and after every completed operation of the client its
\* load_in of F1 and F2 equals the server's load state of feed 1 and feed 2
\* and its ND equals the server's noise-diode state.
C33_CacheFollowsServer ==
  (Completed /\ hist.hardware)
  => /\ \A n \in 1..2 :
          client.channel[feeds[n]].load_in = PyBool(feed[n].load.state = 1)
     /\ client.ND.type \in {"bool", "int"}
     /\ Truthy(client.ND) = (nd.state = 1)

C33_Witness ==
  /\ Completed
  /\ hist.hardware
  /\ ClientStepped
  /\ call.op = "update"
  /\ call.up
  /\ feed[1].load.state = 1
  /\ feed[2].load.state = 0
  /\ nd.state = 1
  /\ client.channel["F1"].load_in = PyBool(TRUE)
  /\ client.ND = PyInt(1)

-----------------------------------------------------------------------------
\* The construction of a client on a server that other callers have used:
\* the codes they sent before set loads, noise diode, preamp bias and
\* power-meter modes.

BeforeArgs ==
  {13, 14, 15, 16, 23, 24, 25, 26, 27, 28,
   390, 391, 392, 393, 400, 401, 402, 403}

\* another caller's set_WBDC(option) while there is no client
Before_set_WBDC ==
  /\ call = Idle
  /\ client = NoClient
  /\ \E option \in BeforeArgs :
       LET o == set_WBDC(option)
       IN  feed' = o.feed /\ nd' = o.nd
  /\ UNCHANGED <<call, ret, log, hist, pending, client, legacy>>

FreshNext ==
  \/ Before_set_WBDC
  \/ Construct
  \/ Do
  \/ Return

SpecFresh == ClientInit /\ [][FreshNext]_vars

\* the preamp bias states and the power-meter modes of the server's feeds fd
BiasAndModes(fd) ==
  [n \in 1..2 |-> <<fd[n].preamp_state, fd[n].chan>>]

\* the construction of a client with hardware has come to its end
ConstructionDone ==
  /\ ClientStepped
  /\ call.op = "__init__"
  /\ call.args[1]
  /\ call.todo = <<>>
  /\ client # NoClient

\* C34: whatever the server's state was before, when the construction of a
\* client with hardware completes both feeds are on the sky and the noise
\* diode is off, and no call of the construction changes the server's
\* preamp bias states or power-meter modes.
C34_ConstructionResets ==
  /\ [](ConstructionDone
          => /\ \A n \in 1..2 : feed[n].load.state = 0
             /\ nd.state = 0)
  /\ [][(ClientStepped' /\ call'.op = "__init__" /\ call' # call)
          => BiasAndModes(feed') = BiasAndModes(feed)]_vars

C34_Witness ==
  /\ ConstructionDone
  /\ feed[1].preamp_state = 0
  /\ feed[2].chan["H"].PM_mode = "dBm"
  /\ feed[1].load.state = 0
  /\ feed[2].load.state = 0
  /\ nd.state = 0
  /\ client.ND = PyInt(0)

-----------------------------------------------------------------------------
\* K_4ch.set_PCG_rail on a constructed client.

\* x == n of Python for an int n: bool, int and float compare by value
PyEq(x, n) ==
  CASE x.type = "int" -> x.v = n
    [] x.type = "bool" -> (IF x.v THEN 1 ELSE 0) = n
    [] x.type = "float" -> x.num = n * x.den
    [] OTHER -> FALSE

\* the object obj with its attribute name set to value, made if need be
SetAttr(obj, name, value) ==
  [a \in DOMAIN obj \cup {name} |-> IF a = name THEN value ELSE obj[a]]

\* a bug: the spacing is stored before it is looked at
K_4ch_set_PCG_rail_stores(spacing) ==
  IF PyEq(spacing, 1) \/ PyEq(spacing, 4)
    THEN K4Outcome(feed, nd, SetAttr(client, "PCG_rail", spacing),
                   PyStr(<<"hardware not available">>))
  ELSE K4Outcome(feed, nd, SetAttr(client, "PCG_rail", spacing),
                 Raise("MonitorControlError"))

\* K_4ch.set_PCG_rail
K_4ch_set_PCG_rail(spacing) ==
  IF PyEq(spacing, 1) \/ PyEq(spacing, 4)
    THEN K4Outcome(feed, nd, SetAttr(client, "PCG_rail", spacing),
                   PyStr(<<"hardware not available">>))
  ELSE K4Outcome(feed, nd, client, Raise("MonitorControlError"))

\* the spacings set_PCG_rail is called with
SpacingArgs ==
  {PyInt(i) : i \in {-1, 0, 1, 2, 3, 4, 5, 14, 41}}
    \cup {PyFloat(4, 1), PyFloat(3, 2), PyBool(TRUE), PyBool(FALSE), PyNone,
          PyStr(<<"1">>), PyStr(<<"4">>)}

\* set_PCG_rail(spacing) is called on the client
Set_PCG_rail ==
  /\ call = Idle
  /\ client # NoClient
  /\ \E spacing \in SpacingArgs :
       LET o == K_4ch_set_PCG_rail(spacing)
       IN  /\ client' = o.client
           /\ ret' = o.ret
           /\ call' = Executing("set_PCG_rail", <<spacing>>, <<>>, TRUE)
  /\ UNCHANGED <<feed, nd, log, hist, pending, legacy>>

PCGNext ==
  \/ Construct
  \/ Do
  \/ Return
  \/ Set_PCG_rail

SpecPCG == ClientInit /\ [][PCGNext]_vars

\* set_PCG_rail has just been called
PCGRailCalled == ClientStepped /\ call.op = "set_PCG_rail"

\* C35: set_PCG_rail(spacing) accepts only a spacing equal to 1 or 4 and
\* stores it as PCG_rail; for any other spacing it raises
\* MonitorControlError and the client, PCG_rail included, stays as it was;
\* PCG_rail, once set, is always 1 or 4.
C35_PCGRailOneOrFour ==
  /\ []((client # NoClient /\ "PCG_rail" \in DOMAIN client)
          => (PyEq(client.PCG_rail, 1) \/ PyEq(client.PCG_rail, 4)))
  /\ [][(PCGRailCalled' /\ call' # call)
          => LET spacing == call'.args[1]
             IN  IF PyEq(spacing, 1) \/ PyEq(spacing, 4)
                   THEN /\ ret' = PyStr(<<"hardware not available">>)
                        /\ client'.PCG_rail = spacing
                 ELSE /\ ret' = Raise("MonitorControlError")
                      /\ client' = client]_vars

C35_Witness ==
  /\ PCGRailCalled
  /\ call.args[1] = PyInt(2)
  /\ ret = Raise("MonitorControlError")
  /\ "PCG_rail" \in DOMAIN client
  /\ client.PCG_rail = PyInt(4)

-----------------------------------------------------------------------------
\* K_4ch.Channel.PowerMeter(parent, pol) called with any polarization code.

upper_char(c) ==
  CASE c = "p" -> "P" [] c = "e" -> "E" [] c = "h" -> "H" [] c = "r" -> "R"
    [] c = "l" -> "L" [] OTHER -> c

upper(s) == [i \in 1..Len(s) |-> upper_char(s[i])]

\* K_4ch.Channel.PowerMeter.__init__ for a polarization code pol of any
\* type: pol.upper() is evaluated first and exists for a str only
PowerMeter_init(chan, hardware, pol) ==
  IF pol.type # "str" THEN Raise("AttributeError")
  ELSE IF upper(pol.v) = <<"P", "1">> \/ upper(pol.v) = <<"E">> \/ PyEq(pol, 1)
    THEN [type |-> "PowerMeter", obj |-> PowerMeter(chan, hardware, "P1")]
  ELSE IF upper(pol.v) = <<"P", "2">> \/ upper(pol.v) = <<"H">> \/ PyEq(pol, 2)
    THEN [type |-> "PowerMeter", obj |-> PowerMeter(chan, hardware, "P2")]
  ELSE Raise("RuntimeError")

\* the polarization codes a power meter is made with
PolArgs ==
  {PyStr(s) : s \in {<<"P", "1">>, <<"p", "1">>, <<"E">>, <<"e">>,
                     <<"P", "2">>, <<"p", "2">>, <<"H">>, <<"h">>,
                     <<"R">>, <<"l">>, <<"1">>, <<"2">>, <<"P", "3">>,
                     <<"E", "H">>, <<"e", "h">>, <<"H", "1">>, <<"p", "3">>,
                     <<>>}}
    \cup {PyInt(i) : i \in 0..4}
    \cup {PyNone, PyBool(TRUE), PyBool(FALSE), PyFloat(1, 1)}

\* K_4ch.Channel.PowerMeter(channel name, pol) is called
New_PowerMeter ==
  /\ call = Idle
  /\ client # NoClient
  /\ \E name \in {"F1", "F2"}, pol \in PolArgs :
       /\ ret' = PowerMeter_init(client.channel[name], client.hardware, pol)
       /\ call' = Executing("PowerMeter", <<PyStr(<<name>>), pol>>, <<>>, TRUE)
  /\ UNCHANGED <<feed, nd, log, hist, pending, client, legacy>>

PMNext ==
  \/ Construct
  \/ Do
  \/ Return
  \/ New_PowerMeter

SpecPM == ClientInit /\ [][PMNext]_vars

\* the codes of the first and of the second polarization
FirstPol ==
  {PyStr(s) : s \in {<<"P", "1">>, <<"p", "1">>, <<"E">>, <<"e">>}}
    \cup {PyInt(1)}

SecondPol ==
  {PyStr(s) : s \in {<<"P", "2">>, <<"p", "2">>, <<"H">>, <<"h">>}}
    \cup {PyInt(2)}

\* the power meter pm is the one of polarization p (0 or 1) of the channel
\* with the name name
IsMeter(pm, name, p) ==
  LET feed_index == LastDigit(name) - 1
  IN  /\ pm.type = "PowerMeter"
      /\ pm.obj.pol = p
      /\ pm.obj.name = <<"F", feed_index + 1, IF p = 0 THEN "P1" ELSE "P2">>
      /\ pm.obj.number = 1 + 2 * feed_index + p
      /\ pm.obj.number \in 1..4

\* C36: a client PowerMeter accepts "P1", "E" (any case) and 1 as the first
\* polarization (pol 0, name FnP1) and "P2", "H" (any case) and 2 as the
\* second (pol 1, name FnP2), with the number 1 + 2*feed_index + pol in
\* 1..4, and fails with the invalid-polarization error (RuntimeError) for
\* every other code.
C36_PolarizationCodes ==
  (ClientStepped /\ call.op = "PowerMeter")
  => LET name == call.args[1].v[1]
         pol == call.args[2]
     IN  IF pol \in FirstPol THEN IsMeter(ret, name, 0)
         ELSE IF pol \in SecondPol THEN IsMeter(ret, name, 1)
         ELSE ret = Raise("RuntimeError")

-----------------------------------------------------------------------------
(* The legacy server, apps/FE_pyro3_server.py: FE_server with its power
   meters pm[1..4], the options 18, 20, 21, 29 and 32 of set_WBDC, and
   read_pms. What the instruments deliver is an input of the call. *)

\* FE_server.__init__: the power meters whose PM(...) did not fail are the
\* keys ok of pm and pm_name; Yfactors is set by option 18 only; pulsed
\* lists the bits of the front-end LabJack that were pulsed
FE_server(ok) ==
  [cls |-> "FE_server",
   pm |-> ok,
   pm_name |-> [k \in ok |-> <<"Feed", (k + 1) \div 2, "Pol", 2 - (k % 2)>>],
   pulsed |-> <<>>]

\* self.FElj.LJ.pulse_bit(bit)
pulse_bit(obj, bit) == [obj EXCEPT !.pulsed = Append(@, bit)]

\* the text ctime(time())
ctime == "ctime"

\* the readings a power meter can deliver, in a unit of power; the meters
\* are told apart by what they read
PMValues(k) == {10 * k, 10 * k + 1}

\* what get_readings of power meter k does: it fails or delivers a value
PMReads(k) ==
  {[ok |-> FALSE, v |-> 0]} \cup {[ok |-> TRUE, v |-> v] : v \in PMValues(k)}

\* the local variable readings of read_pms before its first assignment
Unbound == [bound |-> FALSE, v |-> 0]

\* FE_server.read_pms, the loop from the i-th key on: a failed read is
\* logged and leaves readings as it is; the append fails, and is logged,
\* while readings is unbound
RECURSIVE read_pms_loop(_, _, _, _, _, _)
read_pms_loop(keys, i, readings, pm_readings, logged, reads) ==
  IF i > Len(keys)
    THEN [pm_readings |-> pm_readings, logged |-> logged]
  ELSE LET key == keys[i]
           got == reads[key]
           now == IF got.ok THEN [bound |-> TRUE, v |-> got.v] ELSE readings
       IN  read_pms_loop(keys, i + 1, now,
                         IF now.bound
                           THEN Append(pm_readings, <<key, ctime, now.v>>)
                         ELSE pm_readings,
                         logged \/ ~got.ok, reads)

\* FE_server.read_pms: the keys 1..4 of the dict pm come in ascending order
read_pms(reads) ==
  read_pms_loop(sorted(legacy.pm), 1, Unbound, <<>>, FALSE, reads)

\* the temperatures (K) that self.FElj.get_temps() can deliver for the loads
TempValues == {[load1 |-> a, load2 |-> b] : a \in {300, 310}, b \in {310, 320}}

\* the Y-factors (dB) that self.FElj.Y_factors(self.pm) can deliver
YValues == {10, 20}

\* pow(10., y/10.) for these Y-factors
pow10(y) == CASE y = 10 -> 10 [] y = 20 -> 100

\* the assumed LN2 temperature of option 32
Tln2 == 77

\* a bug: the load is chosen by the polarization of the meter
minical_Tload_by_pol(temps) ==
  [key \in 1..4 |->
     CASE key = 1 -> temps.load1 [] key = 2 -> temps.load2
       [] key = 3 -> temps.load1 [] key = 4 -> temps.load2]

\* option 29: cal_data[key]['Tload'] for the keys 1..4
minical_Tload(temps) ==
  [key \in 1..4 |->
     CASE key = 1 -> temps.load1 [] key = 2 -> temps.load1
       [] key = 3 -> temps.load2 [] key = 4 -> temps.load2]

\* option 29: cal_data has the keys of pm; of what is returned the load
\* temperature entered for each key is kept
Legacy_minical(temps) ==
  IF legacy.pm # 1..4 THEN [legacy |-> legacy, ret |-> Raise("KeyError")]
  ELSE [legacy |-> legacy,
        ret |-> [type |-> "minical", Tload |-> minical_Tload(temps)]]

\* option 32: Tload for the key of a Y-factor
LN2_Tload(key, temps) == IF key < 3 THEN temps.load1 ELSE temps.load2

\* option 32: Trec[key] = (Tload - R*Tln2)/(R - 1) for the keys of Yfactors
Legacy_LN2_calibration(temps) ==
  IF "Yfactors" \notin DOMAIN legacy
    THEN [legacy |-> legacy, ret |-> Raise("AttributeError")]
  ELSE [legacy |-> legacy,
        ret |-> [type |-> "Trec",
                 v |-> [key \in DOMAIN legacy.Yfactors |->
                          LET R == pow10(legacy.Yfactors[key])
                          IN  PyFloat(LN2_Tload(key, temps) - R * Tln2,
                                      R - 1)]]]

\* option 18: self.Yfactors gets a Y-factor for every power meter
Legacy_Y_factors(ys) ==
  [legacy |-> SetAttr(legacy, "Yfactors", ys),
   ret |-> PyStr(<<"Y-factors at", ctime>>)]

\* options 20 and 21: the text is returned, and the pulse_bit that follows
\* the return statement is never executed
Legacy_feed_changed(n) ==
  [legacy |-> legacy,
   ret |-> PyStr(<<"Feed", n, "state changed at", ctime>>)]

\* the else branch: logger.error, nothing returned
Legacy_not_implemented ==
  [legacy |-> legacy, ret |-> PyNone]

\* FE_server.set_WBDC for the options modelled; in is what the instruments
\* deliver during the call
Legacy_set_WBDC(opt, in) ==
  CASE opt = 18 -> Legacy_Y_factors(in.ys)
    [] opt = 20 -> Legacy_feed_changed(1)
    [] opt = 21 -> Legacy_feed_changed(2)
    [] opt = 29 -> Legacy_minical(in.temps)
    [] opt = 32 -> Legacy_LN2_calibration(in.temps)
    [] OTHER -> Legacy_not_implemented

\* the options sent; 17 is not implemented by this server
LegacyArgs == {17, 18, 20, 21, 29, 32}

\* what the instruments can deliver during set_WBDC(opt)
LegacyInputs(opt) ==
  {[temps |-> t, ys |-> y] :
     t \in IF opt \in {29, 32} THEN TempValues
           ELSE {[load1 |-> 300, load2 |-> 310]},
     y \in IF opt = 18 THEN [legacy.pm -> YValues]
           ELSE {[k \in legacy.pm |-> 10]}}

LegacyInit ==
  /\ feed = K_FE_feed
  /\ nd = NoiseDiode
  /\ call = Idle
  /\ ret = PyNone
  /\ log = NoLog
  /\ hist = NoHistory
  /\ pending = NoPending
  /\ client = NoClient
  /\ legacy \in {FE_server(ok) : ok \in SUBSET (1..4)}

\* a caller's set_WBDC(opt) is processed
Legacy_dispatch ==
  /\ call = Idle
  /\ \E opt \in LegacyArgs :
       \E in \in LegacyInputs(opt) :
         LET o == Legacy_set_WBDC(opt, in)
         IN  /\ legacy' = o.legacy
             /\ ret' = o.ret
             /\ call' = Request("set_WBDC", <<opt, in>>)
             /\ log' = IF opt \in {18, 20, 21, 29, 32} THEN NoLog
                       ELSE [level |-> "error", option |-> opt]
  /\ UNCHANGED <<feed, nd, hist, pending, client>>

\* a caller's read_pms() is processed
Legacy_read_pms ==
  /\ call = Idle
  /\ \E reads \in [legacy.pm -> UNION {PMReads(k) : k \in 1..4}] :
       /\ \A k \in legacy.pm : reads[k] \in PMReads(k)
       /\ LET o == read_pms(reads)
          IN  /\ legacy' = SetAttr(legacy, "pm_readings", o.pm_readings)
              /\ ret' = PyList(o.pm_readings)
              /\ call' = Request("read_pms", <<reads>>)
              /\ log' = IF o.logged THEN [level |-> "error", option |-> 0]
                        ELSE NoLog
  /\ UNCHANGED <<feed, nd, hist, pending, client>>

\* the answer has gone to the caller
Legacy_reply ==
  /\ call # Idle
  /\ call' = Idle
  /\ ret' = PyNone
  /\ log' = NoLog
  /\ UNCHANGED <<feed, nd, hist, pending, client, legacy>>

LegacyNext ==
  \/ Legacy_dispatch
  \/ Legacy_read_pms
  \/ Legacy_reply

SpecLegacy == LegacyInit /\ [][LegacyNext]_vars

\* C37: in the legacy server's read_pms every entry (key, time, value) of
\* the returned list carries a value that power meter key delivered during
\* this same call: a meter whose read failed has no entry with a value of
\* another meter or of an earlier read.
C37_ReadPmsOwnValues ==
  (call.op = "read_pms" /\ ret.type = "list")
  => \A i \in 1..Len(ret.v) :
       LET key == ret.v[i][1]
       IN  /\ call.args[1][key].ok
           /\ ret.v[i][3] = call.args[1][key].v

\* set_WBDC(opt) of the legacy server has just been processed
LegacyDispatched(opt) ==
  call.op = "set_WBDC" /\ call.args[1] = opt

\* C38: in the legacy server option 20 toggles feed 1 and option 21 feed 2:
\* dispatching 20 (21) pulses the load-control line of feed 1 (feed 2),
\* bit 0 (bit 1), and returns the text "Feed n state changed at ...".
C38_FeedTogglePulses ==
  [][\A n \in 1..2 :
       (LegacyDispatched(19 + n)' /\ call' # call)
         => /\ ret' = PyStr(<<"Feed", n, "state changed at", ctime>>)
            /\ legacy' = pulse_bit(legacy, n - 1)]_vars

\* the load whose temperature belongs to feed f
LoadOfFeed(f, temps) == IF f = 1 THEN temps.load1 ELSE temps.load2

\* the feed of the channel that K_FE.read_PMs reports at index i
FeedOfReading(i) == PM_order(feed)[i][1]

\* the feed that the legacy server's meter naming gives meter i
FeedOfMeterName(i) == FE_server(1..4).pm_name[i][2]

\* the feed of the client channel whose power meter has the number i
FeedOfClientMeter(i) ==
  CHOOSE f \in 1..2 :
    \E pol \in {"P1", "P2"} :
      PowerMeter([number |-> f - 1], Proxy, pol).number = i

\* C39: for every index i in 1..4 the load temperature that the calibration
\* attaches to reading i, in the minical of option 29 and in option 32, is
\* that of the feed of the channel that read_PMs reports at index i, which
\* is also the feed the meter naming gives meter i (load1 for 1 and 2,
\* load2 for 3 and 4).
C39_IndexToFeed ==
  /\ \A i \in 1..4 :
       /\ FeedOfMeterName(i) = FeedOfReading(i)
       /\ FeedOfClientMeter(i) = FeedOfReading(i)
  /\ (LegacyDispatched(29) /\ ret.type = "minical")
       => \A i \in 1..4 :
            ret.Tload[i] = LoadOfFeed(FeedOfReading(i), call.args[2].temps)
  /\ (LegacyDispatched(32) /\ ret.type = "Trec")
       => \A i \in DOMAIN ret.v :
            ret.v[i].num
              = LoadOfFeed(FeedOfReading(i), call.args[2].temps)
                  - pow10(legacy.Yfactors[i]) * Tln2

C39_Witness ==
  /\ LegacyDispatched(29)
  /\ ret.type = "minical"
  /\ call.args[2].temps = [load1 |-> 300, load2 |-> 320]
  /\ ret.Tload = <<300, 300, 320, 320>>
  /\ "Yfactors" \in DOMAIN legacy

=============================================================================
